---- MODULE Spec2Model ----
(***************************************************************************)
(* A model of the streaming response protocol of backend/app/utils/ai.py:  *)
(* the generator stream_text, which turns the chunks of a model completion *)
(* stream into a sequence of server-sent events, and its wrapper           *)
(* stream_text_with_persistence, which passes the events through and       *)
(* schedules the save of the finished exchange.                            *)
(*                                                                         *)
(* Both are Python generators.  The consumer (the HTTP response writer)    *)
(* resumes the generator with next(); the generator runs to its next yield *)
(* and suspends there.  Between two reads of its inputs (a chunk of the    *)
(* model stream, the result of a tool) the body is straight-line code, so  *)
(* an action of the model runs the body from one read to the next and      *)
(* queues the frames it yields on the way in `pending`; Deliver hands the  *)
(* consumer one queued frame per resumption.  An action that reads an      *)
(* input or has a side effect is enabled only when `pending` is empty,     *)
(* that is when the consumer has asked for a frame the generator has not   *)
(* produced yet.                                                           *)
(***************************************************************************)
EXTENDS Integers, Sequences, FiniteSets, TLC

VARIABLES
    pc,               \* position of stream_text
    pending,          \* frames stream_text yields before its next read
    out,              \* frames stream_text has yielded
    wout,             \* frames stream_text_with_persistence has yielded
    inLog,            \* chunks read from the model stream so far
    message_id,       \* stream_text: message_id
    text_started,     \* stream_text: text_started
    text_finished,    \* stream_text: text_finished
    finish_reason,    \* stream_text: finish_reason
    usage_data,       \* stream_text: usage_data
    tool_calls_state, \* stream_text: tool_calls_state, index -> state
    todo,             \* call indexes the loop of line 321 has still to visit
    available_tools,  \* stream_text: available_tools (names registered)
    invoked,          \* call indexes whose tool function was called, in order
    raised,           \* what reached the handler of line 419 ("none" if nothing)
    cancelled,        \* the consumer closed the generator
    collected_delta,  \* stream_text_with_persistence: collected_delta
    w_message_id,     \* stream_text_with_persistence: message_id
    background_tasks, \* tasks added to background_tasks, in order
    ui_messages,      \* the caller's list ui_messages (routers/chat.py)
    \* the save task and the tables it writes (repositories/ai.py)
    save_state,       \* "none", "scheduled", "running", "saved" or "failed"
    chat,             \* the Chat row of chat_id: Nothing, or Some(its user_id)
    message_rows,     \* the Message rows of chat_id, in order of creation
    logged,           \* what the save task wrote to the error log, in order
    propagated,       \* an exception left the save task
    \* URLCrawler (services/scraper.py)
    c_pc,             \* position of URLCrawler.crawl
    max_depth,        \* self.max_depth
    max_urls,         \* self.max_urls
    follow_external,  \* self.follow_external
    include_patterns, \* self.include_patterns
    exclude_patterns, \* self.exclude_patterns
    visited,          \* self.visited
    to_visit,         \* self.to_visit, pairs <<url, depth>>
    discovered_urls,  \* crawl: discovered_urls
    dequeued_at,      \* the depth each discovered URL was dequeued at
    c_url,            \* crawl: url, the URL being fetched
    c_depth,          \* crawl: depth, of the URL being fetched
    c_log,            \* what the loop did, in order: a skip or a GET
    \* retrieve_docs (services/embedding.py)
    r_pc,             \* position of retrieve_docs
    r_k,              \* retrieve_docs: k
    searched,         \* what each similarity search did, in order
    all_docs,         \* retrieve_docs: all_docs, in insertion order
    doc_scores,       \* retrieve_docs: doc_scores, in insertion order
    r_result,         \* retrieve_docs: result
    \* QueryRewriter.rewrite (services/query_rewriter.py)
    rw_pc,            \* position of rewrite
    rw_query,         \* rewrite: query
    rw_strategy,      \* rewrite: strategy
    rw_todo,          \* the generation calls rewrite has still to make
    rw_queries,       \* rewrite: queries
    rw_calls,         \* what each generation call did, in order
    unique_queries,   \* rewrite: the list it returns
    \* lifespan (main.py)
    l_pc,             \* "down", "serving" or "failed"
    settings,         \* the Settings object of config/settings.py
    environ,          \* the value of INGEST_URLS in the environment
    chroma_db,        \* the directory CHROMA_DB_PATH
    l_last,           \* what the last startup did
    \* the tables of repositories/ai.py
    chat_table,       \* chat id -> Nothing, or Some(user_id) of its Chat row
    message_table,    \* chat id -> the Message rows of the chat, in order
    created,          \* the chat ids create_chat has handed out
    last_op,          \* the last call of the repository and its outcome
    \* scrape (services/scraper.py)
    s_pc,             \* position of scrape
    s_todo,           \* normalized_urls still to request
    s_results,        \* scrape: results
    s_log,            \* per URL: the responses got and the result made
    \* the HTTP client of crawl and scrape (services/scraper.py)
    cl_stack,         \* the calls that are running, the innermost last
    cl_client,        \* the client: who made it, and how often it was closed
    cl_gets,          \* the GETs made so far, and on what client state
    cl_exit,          \* how the outermost call ended
    \* a function applied to an input
    f_pc,             \* "input" before the call, "output" after
    f_in,             \* the arguments
    f_out,            \* what the function returned
    \* two saves of one chat (repositories/ai.py, utils/ai.py)
    tx,               \* per request: position, snapshot, messages, deletes
    db_rows           \* the committed Message rows of the chat

\* the variables of the response stream
streamVars == <<pc, pending, out, wout, inLog, message_id, text_started,
                text_finished, finish_reason, usage_data, tool_calls_state,
                todo, available_tools, invoked, raised, cancelled,
                collected_delta, w_message_id, background_tasks>>

\* the variables of the save task
saveVars == <<save_state, chat, message_rows, logged, propagated>>

\* the variables of the crawler
crawlVars == <<c_pc, max_depth, max_urls, follow_external, include_patterns,
               exclude_patterns, visited, to_visit, discovered_urls,
               dequeued_at, c_url, c_depth, c_log>>

\* the variables of retrieve_docs
retrVars == <<r_pc, r_k, searched, all_docs, doc_scores, r_result>>

\* the variables of QueryRewriter.rewrite
rewriteVars == <<rw_pc, rw_query, rw_strategy, rw_todo, rw_queries, rw_calls,
                 unique_queries>>

\* the variables of lifespan
lifespanVars == <<l_pc, settings, environ, chroma_db, l_last>>

\* the variables of the chat repository
storeVars == <<chat_table, message_table, created, last_op>>

\* the variables of scrape
scrapeVars == <<s_pc, s_todo, s_results, s_log>>

\* the variables of the client of crawl and scrape
clientVars == <<cl_stack, cl_client, cl_gets, cl_exit>>

\* the variables of a function call
fnVars == <<f_pc, f_in, f_out>>

\* the variables of two overlapping saves
overlapVars == <<tx, db_rows>>

moreVars == <<clientVars, fnVars, overlapVars>>

serviceVars == <<rewriteVars, lifespanVars, storeVars, scrapeVars, moreVars>>

\* what no step of stream_text touches
restVars == <<saveVars, crawlVars, retrVars, serviceVars>>

vars == <<streamVars, ui_messages, restVars>>

(***************************************************************************)
(* Bounds and input alphabets.                                             *)
(***************************************************************************)
\* chunks one model stream delivers at most
MaxChunks == 3

\* Python's None for a string-valued field (no field of the alphabets below
\* holds this text)
None == "<None>"

\* Python's None / a present value, for a field that holds a record or a tuple
Nothing == <<>>

Some(x) == <<x>>

\* finish reasons, as character sequences
Stop == <<"s", "t", "o", "p">>

ToolCalls == <<"t", "o", "o", "l", "_", "c", "a", "l", "l", "s">>

Length == <<"l", "e", "n", "g", "t", "h">>

FinishReasons == {Stop, ToolCalls, Length}

Contents == {"Ol", "a!"}

Indexes == {0, 1}

ToolCallIds == {"call_A", "call_B"}

ToolNames == {"get_weather"}

\* argument fragments: over the characters { and } the only JSON text is {}
ArgFragments == {"{", "{}"}

\* the usage counters a usage chunk carries
Usage == [prompt_tokens |-> 3, completion_tokens |-> 2, total_tokens |-> 5]

(***************************************************************************)
(* The chunks of the model stream.  A chunk holds a list of choices and    *)
(* optional usage counters; a choice holds an optional finish reason and   *)
(* an optional delta; a delta holds an optional content fragment and a     *)
(* list of tool-call fragments; a tool-call fragment holds the call index, *)
(* an optional id and an optional function (optional name, optional        *)
(* argument fragment).                                                     *)
(***************************************************************************)
ToolCallDelta(index, id, name, arguments) ==
    [index |-> index, id |-> id,
     function |-> Some([name |-> name, arguments |-> arguments])]

\* The fragments of call 0 arrive in any order: fragments that carry one
\* field alone (an id, the other id, the name, an argument fragment) and
\* fragments that carry id and name together, with or without arguments.
\* Call 1 arrives as one fragment, with or without arguments.
ToolCallDeltas ==
    {[index |-> 0, id |-> d, function |-> Nothing] : d \in ToolCallIds}
    \cup {ToolCallDelta(0, None, n, None) : n \in ToolNames}
    \cup {ToolCallDelta(0, None, None, "{")}
    \cup {ToolCallDelta(0, "call_A", n, a) :
              n \in ToolNames, a \in ArgFragments \cup {None}}
    \cup {ToolCallDelta(1, "call_B", n, a) :
              n \in ToolNames, a \in {None, "{"}}

TextChunk(c) ==
    [choices |-> <<[finish_reason |-> Nothing,
                    delta |-> Some([content |-> c, tool_calls |-> <<>>])]>>,
     usage |-> Nothing]

FinishChunk(r) ==
    [choices |-> <<[finish_reason |-> Some(r),
                    delta |-> Some([content |-> None, tool_calls |-> <<>>])]>>,
     usage |-> Nothing]

ToolChunk(t) ==
    [choices |-> <<[finish_reason |-> Nothing,
                    delta |-> Some([content |-> None, tool_calls |-> <<t>>])]>>,
     usage |-> Nothing]

UsageChunk == [choices |-> <<>>, usage |-> Some(Usage)]

Chunks ==
    {TextChunk(c) : c \in Contents}
    \cup {FinishChunk(r) : r \in FinishReasons}
    \cup {ToolChunk(t) : t \in ToolCallDeltas}
    \cup {UsageChunk}

(***************************************************************************)
(* Frames.  format_sse wraps the JSON text of a payload in "data: ...\n\n";*)
(* the sentinel is the literal frame "data: [DONE]\n\n".  A frame built    *)
(* from the state of a tool call also records the call index (`call`),     *)
(* which is bookkeeping of the model and not part of the wire format.      *)
(***************************************************************************)
format_sse(payload) == [sse |-> "json", data |-> payload]

DoneFrame == [sse |-> "[DONE]"]

ToolFrame(index, payload) ==
    [sse |-> "json", data |-> payload, call |-> index]

text_stream_id == "text-1"

\* str.replace("_", "-") on a character sequence
ReplaceUnderscore(s) ==
    [k \in 1..Len(s) |-> IF s[k] = "_" THEN "-" ELSE s[k]]

\* json.loads on the texts the argument fragments can build: every such text
\* is a sequence of { and }, and the only JSON text among them is {}
JsonLoads(raw) ==
    IF raw = "{}" THEN [ok |-> TRUE, value |-> "{}"] ELSE [ok |-> FALSE]

\* sorted(S) for a set of integers
RECURSIVE Sorted(_)
Sorted(S) ==
    IF S = {} THEN <<>>
    ELSE LET m == CHOOSE x \in S : \A y \in S : x <= y
         IN  <<m>> \o Sorted(S \ {m})

\* "".join(parts)
RECURSIVE Join(_)
Join(parts) ==
    IF parts = <<>> THEN "" ELSE Head(parts) \o Join(Tail(parts))

(***************************************************************************)
(* The body of the loop over the model stream (lines 220-314), as          *)
(* operators on the locals it reads and writes:                            *)
(*   L = [text_started, finish_reason, tcs (tool_calls_state), ev (the     *)
(*        frames yielded so far while processing the chunk)].              *)
(***************************************************************************)
NewToolCallState ==
    [id |-> None, name |-> None, arguments |-> "", started |-> FALSE]

ToolInputStart(index, state) ==
    ToolFrame(index, [type |-> "tool-input-start",
                      toolCallId |-> state.id,
                      toolName |-> state.name])

\* the guarded yield of tool-input-start (lines 256-268, 274-286, 289-301)
StartIfReady(index, X) ==
    IF X.state.id # None /\ X.state.name # None /\ ~X.state.started
    THEN [state |-> [X.state EXCEPT !.started = TRUE],
          ev |-> Append(X.ev, ToolInputStart(index, X.state))]
    ELSE X

\* the yield of tool-input-delta (lines 303-311)
ArgumentsDelta(index, X, arguments) ==
    LET s == [X.state EXCEPT !.arguments = @ \o arguments]
    IN  IF s.id # None
        THEN [state |-> s,
              ev |-> Append(X.ev,
                            ToolFrame(index, [type |-> "tool-input-delta",
                                              toolCallId |-> s.id,
                                              inputTextDelta |-> arguments]))]
        ELSE [state |-> s, ev |-> X.ev]

\* one tool_call_delta (lines 242-311)
ToolCallDeltaStep(L, tcd) ==
    LET index == tcd.index
        state0 == IF index \in DOMAIN L.tcs THEN L.tcs[index]
                  ELSE NewToolCallState
        X0 == [state |-> state0, ev |-> L.ev]
        X1 == IF tcd.id # None
              THEN StartIfReady(index, [X0 EXCEPT !.state.id = tcd.id])
              ELSE X0
        X2 == IF tcd.function # Nothing /\ tcd.function[1].name # None
              THEN StartIfReady(index,
                       [X1 EXCEPT !.state.name = tcd.function[1].name])
              ELSE X1
        X3 == IF /\ tcd.function # Nothing
                 /\ tcd.function[1].arguments # None
                 /\ tcd.function[1].arguments # ""
              THEN ArgumentsDelta(index, StartIfReady(index, X2),
                                  tcd.function[1].arguments)
              ELSE X2
    IN  [L EXCEPT !.tcs = (index :> X3.state) @@ L.tcs, !.ev = X3.ev]

RECURSIVE ToolCallDeltas_Fold(_, _)
ToolCallDeltas_Fold(L, tcds) ==
    IF tcds = <<>> THEN L
    ELSE ToolCallDeltas_Fold(ToolCallDeltaStep(L, Head(tcds)), Tail(tcds))

\* ContentStep with text_started never set: every fragment opens a span
ContentStep_NeverStarted(L, content) ==
    IF content = None THEN L
    ELSE [L EXCEPT !.ev = L.ev \o
                          <<format_sse([type |-> "text-start",
                                        id |-> text_stream_id]),
                            format_sse([type |-> "text-delta",
                                        id |-> text_stream_id,
                                        delta |-> content])>>]

\* the content fragment of a delta (lines 229-239)
ContentStep(L, content) ==
    IF content = None THEN L
    ELSE LET ev1 == IF L.text_started THEN L.ev
                    ELSE Append(L.ev, format_sse([type |-> "text-start",
                                                  id |-> text_stream_id]))
         IN  [L EXCEPT !.text_started = TRUE,
                       !.ev = Append(ev1, format_sse([type |-> "text-delta",
                                                      id |-> text_stream_id,
                                                      delta |-> content]))]

\* one choice of a chunk (lines 221-311)
ChoiceStep(L, choice) ==
    LET L1 == IF choice.finish_reason # Nothing
              THEN [L EXCEPT !.finish_reason = choice.finish_reason]
              ELSE L
    IN  IF choice.delta = Nothing THEN L1
        ELSE LET delta == choice.delta[1]
             IN  ToolCallDeltas_Fold(ContentStep(L1, delta.content),
                                     delta.tool_calls)

RECURSIVE Choices_Fold(_, _)
Choices_Fold(L, choices) ==
    IF choices = <<>> THEN L
    ELSE Choices_Fold(ChoiceStep(L, Head(choices)), Tail(choices))

(***************************************************************************)
(* The state after the generator object is created and before the first    *)
(* next(): nothing has run.  available_tools is a parameter of stream_text.*)
(***************************************************************************)
StreamInit ==
    /\ pc = "init"
    /\ pending = <<>>
    /\ out = <<>>
    /\ wout = <<>>
    /\ inLog = <<>>
    /\ message_id = None
    /\ text_started = FALSE
    /\ text_finished = FALSE
    /\ finish_reason = Nothing
    /\ usage_data = Nothing
    /\ tool_calls_state = <<>>
    /\ todo = <<>>
    /\ available_tools \in SUBSET ToolNames
    /\ invoked = <<>>
    /\ raised = "none"
    /\ cancelled = FALSE
    /\ collected_delta = <<>>
    /\ w_message_id = None
    /\ background_tasks = <<>>

\* routers/chat.py line 124: the message the user has just sent
NewUserMessage ==
    [id |-> "msg-u1", role |-> "user",
     parts |-> <<[type |-> "text", text |-> "hello"]>>]

\* no save task exists, and the chat of the request belongs to its user
SaveIdle ==
    /\ save_state = "none"
    /\ chat = Some("user-1")
    /\ message_rows = <<>>
    /\ logged = <<>>
    /\ propagated = FALSE

\* no URLCrawler exists
CrawlIdle ==
    /\ c_pc = "idle"
    /\ max_depth = 0
    /\ max_urls = 0
    /\ follow_external = FALSE
    /\ include_patterns = <<>>
    /\ exclude_patterns = <<>>
    /\ visited = {}
    /\ to_visit = <<>>
    /\ discovered_urls = <<>>
    /\ dequeued_at = <<>>
    /\ c_url = <<>>
    /\ c_depth = 0
    /\ c_log = <<>>

\* retrieve_docs has not been called
RetrieveIdle ==
    /\ r_pc = "idle"
    /\ r_k = 0
    /\ searched = <<>>
    /\ all_docs = <<>>
    /\ doc_scores = <<>>
    /\ r_result = <<>>

\* rewrite has not been called
RewriteIdle ==
    /\ rw_pc = "idle"
    /\ rw_query = <<>>
    /\ rw_strategy = "combined"
    /\ rw_todo = <<>>
    /\ rw_queries = <<>>
    /\ rw_calls = <<>>
    /\ unique_queries = <<>>

\* the application is not running; ingestion is switched off
LifespanIdle ==
    /\ l_pc = "down"
    /\ settings = [INGEST_BASE_URL |-> <<>>, INGEST_ON_STARTUP |-> FALSE,
                   INGEST_FORCE |-> FALSE]
    /\ environ = Nothing
    /\ chroma_db = "missing"
    /\ l_last = Nothing

\* the tables are empty and the repository has not been called
StoreIdle ==
    /\ chat_table = <<>>
    /\ message_table = <<>>
    /\ created = {}
    /\ last_op = Nothing

\* scrape has not been called
ScrapeIdle ==
    /\ s_pc = "idle"
    /\ s_todo = <<>>
    /\ s_results = <<>>
    /\ s_log = <<>>

\* neither crawl nor scrape holds a client
ClientIdle ==
    /\ cl_stack = <<>>
    /\ cl_client = Nothing
    /\ cl_gets = <<>>
    /\ cl_exit = None

\* no function is being applied
FnIdle ==
    /\ f_pc = "idle"
    /\ f_in = Nothing
    /\ f_out = Nothing

\* no request is saving
OverlapIdle ==
    /\ tx = <<>>
    /\ db_rows = <<>>

MoreIdle ==
    /\ ClientIdle
    /\ FnIdle
    /\ OverlapIdle

ServicesIdle ==
    /\ RewriteIdle
    /\ LifespanIdle
    /\ StoreIdle
    /\ ScrapeIdle
    /\ MoreIdle

\* a request whose chat holds no earlier message: ui_messages is the new
\* user message alone (routers/chat.py lines 112-132)
Init ==
    /\ StreamInit
    /\ ui_messages = <<NewUserMessage>>
    /\ SaveIdle
    /\ CrawlIdle
    /\ RetrieveIdle
    /\ ServicesIdle

sinkVars == <<out, wout, collected_delta, w_message_id, background_tasks>>

localVars == <<text_started, text_finished, finish_reason, usage_data,
               tool_calls_state, todo>>

\* the generator runs only while the consumer is waiting in next()
Running == ~cancelled /\ pending = <<>>

\* Handler with the sentinel forgotten
Handler_NoSentinel(errorText) ==
    <<format_sse([type |-> "error", errorText |-> errorText])>>

\* Handler falling through to the finish frame
Handler_ThenFinish(errorText) ==
    <<format_sse([type |-> "error", errorText |-> errorText]),
      format_sse([type |-> "finish"]), DoneFrame>>

\* the handler of lines 419-430: one error frame, then the sentinel
Handler(errorText) ==
    <<format_sse([type |-> "error", errorText |-> errorText]), DoneFrame>>

\* lines 200-211: the first next() runs to the yield of the start frame
Start ==
    /\ pc = "init" /\ Running
    /\ message_id' = "msg-1"
    /\ pending' = <<format_sse([type |-> "start", messageId |-> "msg-1"])>>
    /\ pc' = "create"
    /\ UNCHANGED <<ui_messages, restVars>>
    /\ UNCHANGED <<inLog, localVars, available_tools, invoked, raised,
                   cancelled, sinkVars>>

\* lines 213-218: client.chat.completions.create returns the stream
Create ==
    /\ pc = "create" /\ Running
    /\ pc' = "stream"
    /\ UNCHANGED <<ui_messages, restVars>>
    /\ UNCHANGED <<pending, inLog, message_id, localVars, available_tools,
                   invoked, raised, cancelled, sinkVars>>

\* lines 213-218 and 419-430: client.chat.completions.create raises
CreateFails ==
    /\ pc = "create" /\ Running
    /\ raised' = "create"
    /\ pending' = Handler("connection error")
    /\ pc' = "done"
    /\ UNCHANGED <<ui_messages, restVars>>
    /\ UNCHANGED <<inLog, message_id, localVars, available_tools, invoked,
                   cancelled, sinkVars>>

\* lines 220-314: the stream delivers a chunk and the loop body processes it
NextChunk(chunk) ==
    /\ pc = "stream" /\ Running
    /\ Len(inLog) < MaxChunks
    /\ LET L == Choices_Fold([text_started |-> text_started,
                              finish_reason |-> finish_reason,
                              tcs |-> tool_calls_state,
                              ev |-> <<>>],
                             chunk.choices)
       IN  /\ text_started' = L.text_started
           /\ finish_reason' = L.finish_reason
           /\ tool_calls_state' = L.tcs
           /\ pending' = L.ev
    /\ usage_data' = IF chunk.choices = <<>> /\ chunk.usage # Nothing
                     THEN chunk.usage ELSE usage_data
    /\ inLog' = Append(inLog, chunk)
    /\ UNCHANGED <<ui_messages, restVars>>
    /\ UNCHANGED <<pc, message_id, text_finished, todo, available_tools,
                   invoked, raised, cancelled, sinkVars>>

\* line 220 and 419-430: the iteration of the stream raises
StreamFails ==
    /\ pc = "stream" /\ Running
    /\ raised' = "stream"
    /\ pending' = Handler("stream error")
    /\ pc' = "done"
    /\ UNCHANGED <<ui_messages, restVars>>
    /\ UNCHANGED <<inLog, message_id, localVars, available_tools, invoked,
                   cancelled, sinkVars>>

\* StreamEnd entering the loop over the calls whatever the finish reason
StreamEnd_AnyReason ==
    /\ pc = "stream" /\ Running
    /\ LET close == finish_reason = Some(Stop) /\ text_started
                    /\ ~text_finished
       IN  /\ pending' = IF close
                         THEN <<format_sse([type |-> "text-end",
                                            id |-> text_stream_id])>>
                         ELSE <<>>
           /\ text_finished' = (text_finished \/ close)
    /\ todo' = Sorted(DOMAIN tool_calls_state)
    /\ pc' = "calls"
    /\ UNCHANGED <<ui_messages, restVars>>
    /\ UNCHANGED <<inLog, message_id, text_started, finish_reason, usage_data,
                   tool_calls_state, available_tools, invoked, raised,
                   cancelled, sinkVars>>

\* lines 316-321: the stream is exhausted; a "stop" closes the text span, and
\* a "tool_calls" enters the loop over the sorted call indexes
StreamEnd ==
    /\ pc = "stream" /\ Running
    /\ LET close == finish_reason = Some(Stop) /\ text_started
                    /\ ~text_finished
       IN  /\ pending' = IF close
                         THEN <<format_sse([type |-> "text-end",
                                            id |-> text_stream_id])>>
                         ELSE <<>>
           /\ text_finished' = (text_finished \/ close)
    /\ todo' = IF finish_reason = Some(ToolCalls)
               THEN Sorted(DOMAIN tool_calls_state) ELSE <<>>
    /\ pc' = "calls"
    /\ UNCHANGED <<ui_messages, restVars>>
    /\ UNCHANGED <<inLog, message_id, text_started, finish_reason, usage_data,
                   tool_calls_state, available_tools, invoked, raised,
                   cancelled, sinkVars>>

(***************************************************************************)
(* The loop over the accumulated tool calls (lines 321-393).               *)
(***************************************************************************)
\* the dict json.loads returns for the text {} and the literal {} of line 342
EmptyDict == "dict()"

\* ParseArguments with the failure of json.loads swallowed
ParseArguments_Lenient(raw_arguments) ==
    [ok |-> TRUE, value |-> EmptyDict]

\* lines 339-344: json.loads(raw_arguments) if raw_arguments else {}
ParseArguments(raw_arguments) ==
    IF raw_arguments = "" THEN [ok |-> TRUE, value |-> EmptyDict]
    ELSE IF JsonLoads(raw_arguments).ok
         THEN [ok |-> TRUE, value |-> EmptyDict]
         ELSE [ok |-> FALSE]

\* lines 345-353
ToolInputError(index, state) ==
    ToolFrame(index, [type |-> "tool-input-error",
                      toolCallId |-> state.id,
                      toolName |-> state.name,
                      input |-> state.arguments,
                      errorText |-> "Expecting value"])

\* lines 356-363
ToolInputAvailable(index, state, parsed_arguments) ==
    ToolFrame(index, [type |-> "tool-input-available",
                      toolCallId |-> state.id,
                      toolName |-> state.name,
                      input |-> parsed_arguments])

\* lines 367-373 and 379-385
ToolOutputError(index, state, errorText) ==
    ToolFrame(index, [type |-> "tool-output-error",
                      toolCallId |-> state.id,
                      errorText |-> errorText])

\* lines 387-393
ToolOutputAvailable(index, state, tool_result) ==
    ToolFrame(index, [type |-> "tool-output-available",
                      toolCallId |-> state.id,
                      output |-> tool_result])

\* lines 321-363: one iteration of the loop up to the lookup of the tool; a
\* state without id or name is skipped, unparseable arguments end the
\* iteration with tool-input-error
ProcessCall ==
    /\ pc = "calls" /\ Running
    /\ todo # <<>>
    /\ LET index == Head(todo)
           state == tool_calls_state[index]
           parsed == ParseArguments(state.arguments)
           ev0 == IF state.started THEN <<>>
                  ELSE <<ToolInputStart(index, state)>>
       IN  IF state.id = None \/ state.name = None
           THEN /\ todo' = Tail(todo)
                /\ UNCHANGED <<pc, pending, tool_calls_state>>
           ELSE /\ tool_calls_state' =
                       [tool_calls_state EXCEPT ![index].started = TRUE]
                /\ IF parsed.ok
                   THEN /\ pending' = Append(ev0,
                               ToolInputAvailable(index, state, parsed.value))
                        /\ pc' = "dispatch"
                        /\ todo' = todo
                   ELSE /\ pending' = Append(ev0, ToolInputError(index, state))
                        /\ pc' = pc
                        /\ todo' = Tail(todo)
    /\ UNCHANGED <<ui_messages, restVars>>
    /\ UNCHANGED <<inLog, message_id, text_started, text_finished,
                   finish_reason, usage_data, available_tools, invoked,
                   raised, cancelled, sinkVars>>

\* lines 365-374: the tool name is not in the registry
ToolNotFound ==
    /\ pc = "dispatch" /\ Running
    /\ LET index == Head(todo)
           state == tool_calls_state[index]
       IN  /\ state.name \notin available_tools
           /\ pending' = <<ToolOutputError(index, state, "Tool not found.")>>
    /\ todo' = Tail(todo)
    /\ pc' = "calls"
    /\ UNCHANGED <<ui_messages, restVars>>
    /\ UNCHANGED <<inLog, message_id, text_started, text_finished,
                   finish_reason, usage_data, tool_calls_state,
                   available_tools, invoked, raised, cancelled, sinkVars>>

\* what a call of a tool function can do: raise, return a value json.dumps
\* can encode, or return one it cannot (json.dumps raises TypeError)
ToolOutcomes == {"raises", "returns", "returns-unserialisable"}

\* lines 376-393: the registered tool is called
InvokeTool(outcome) ==
    /\ pc = "dispatch" /\ Running
    /\ LET index == Head(todo)
           state == tool_calls_state[index]
       IN  /\ state.name \in available_tools
           /\ invoked' = Append(invoked, index)
           /\ CASE outcome = "raises" ->
                     /\ pending' = <<ToolOutputError(index, state, "tool failed")>>
                     /\ pc' = "calls"
                     /\ todo' = Tail(todo)
                     /\ raised' = raised
                [] outcome = "returns" ->
                     /\ pending' = <<ToolOutputAvailable(index, state, "result")>>
                     /\ pc' = "calls"
                     /\ todo' = Tail(todo)
                     /\ raised' = raised
                [] outcome = "returns-unserialisable" ->
                     /\ pending' = Handler("Object is not JSON serializable")
                     /\ pc' = "done"
                     /\ todo' = todo
                     /\ raised' = "serialise"
    /\ UNCHANGED <<ui_messages, restVars>>
    /\ UNCHANGED <<inLog, message_id, text_started, text_finished,
                   finish_reason, usage_data, tool_calls_state,
                   available_tools, cancelled, sinkVars>>

(***************************************************************************)
(* The end of the response (lines 395-418).                                *)
(***************************************************************************)
\* lines 403-411
UsagePayload(u) ==
    [promptTokens |-> u.prompt_tokens,
     completionTokens |-> u.completion_tokens,
     totalTokens |-> u.total_tokens]

\* FinishMetadata with the finish reason passed on as reported
FinishMetadata_RawReason(reason, usage) ==
    (IF reason # Nothing THEN [finishReason |-> reason[1]] ELSE <<>>)
    @@ (IF usage # Nothing
        THEN [usage |-> UsagePayload(usage[1])] ELSE <<>>)

\* lines 399-411: finish_metadata, a dict with the keys that are known
FinishMetadata(reason, usage) ==
    (IF reason # Nothing
     THEN [finishReason |-> ReplaceUnderscore(reason[1])] ELSE <<>>)
    @@ (IF usage # Nothing
        THEN [usage |-> UsagePayload(usage[1])] ELSE <<>>)

\* lines 413-416
FinishFrame(reason, usage) ==
    IF FinishMetadata(reason, usage) # <<>>
    THEN format_sse([type |-> "finish",
                     messageMetadata |-> FinishMetadata(reason, usage)])
    ELSE format_sse([type |-> "finish"])

\* Finish without the test of lines 395-397: a span "stop" did not close
\* stays open
Finish_LeavesSpanOpen ==
    /\ pc = "calls" /\ Running
    /\ todo = <<>>
    /\ pending' = <<FinishFrame(finish_reason, usage_data), DoneFrame>>
    /\ pc' = "done"
    /\ UNCHANGED <<ui_messages, restVars>>
    /\ UNCHANGED <<inLog, message_id, text_started, text_finished,
                   finish_reason, usage_data, tool_calls_state, todo,
                   available_tools, invoked, raised, cancelled, sinkVars>>

\* lines 395-418: close an open text span, then finish and the sentinel
Finish ==
    /\ pc = "calls" /\ Running
    /\ todo = <<>>
    /\ LET close == text_started /\ ~text_finished
       IN  /\ pending' =
                  (IF close THEN <<format_sse([type |-> "text-end",
                                               id |-> text_stream_id])>>
                   ELSE <<>>)
                  \o <<FinishFrame(finish_reason, usage_data), DoneFrame>>
           /\ text_finished' = (text_finished \/ close)
    /\ pc' = "done"
    /\ UNCHANGED <<ui_messages, restVars>>
    /\ UNCHANGED <<inLog, message_id, text_started, finish_reason, usage_data,
                   tool_calls_state, todo, available_tools, invoked, raised,
                   cancelled, sinkVars>>

\* the next() after the sentinel: stream_text returns, and with it the loop
\* of line 452 and stream_text_with_persistence
Return ==
    /\ pc = "done" /\ Running
    /\ pc' = "returned"
    /\ UNCHANGED <<ui_messages, restVars>>
    /\ UNCHANGED <<pending, inLog, message_id, localVars, available_tools,
                   invoked, raised, cancelled, sinkVars>>

(***************************************************************************)
(* stream_text_with_persistence (lines 449-497) and the consumer.          *)
(***************************************************************************)
\* lines 466-470
AssistantMsg(mid, deltas) ==
    [id |-> IF mid # None /\ mid # "" THEN mid ELSE "msg-new",
     role |-> "assistant",
     parts |-> <<[type |-> "text", text |-> Join(deltas)]>>]

\* ListPlus appending to the list it is given (list.append, list += ...)
ListPlus_InPlace(list, item) ==
    [sum |-> list \o <<item>>, left |-> list \o <<item>>]

\* line 471: list + [item] builds a new list and leaves `list` as it was
ListPlus(list, item) ==
    [sum |-> list \o <<item>>, left |-> list]

\* lines 471-486: the save task added at the sentinel
SaveTask(mid, deltas) ==
    [chat_id |-> "chat-1", user_id |-> "user-1",
     final_messages |-> ListPlus(ui_messages, AssistantMsg(mid, deltas)).sum]

\* TasksAdded with a save scheduled at the finish frame as well
TasksAdded_AlsoOnFinish(event, mid, deltas) ==
    IF event.sse = "[DONE]" \/ event.data.type = "finish"
    THEN <<SaveTask(mid, deltas)>> ELSE <<>>

\* lines 463-486: a save task is added when the frame is the sentinel
TasksAdded(event, mid, deltas) ==
    IF event.sse = "[DONE]" THEN <<SaveTask(mid, deltas)>> ELSE <<>>

\* Yielded with the yield placed in the branch that parses the frame
Yielded_OnlyParsed(event) ==
    IF event.sse = "[DONE]" THEN <<>> ELSE <<event>>

\* line 497: every frame is yielded, outside the try of lines 462-495
Yielded(event) == <<event>>

\* lines 452-497: the consumer's next() resumes stream_text at its yield; the
\* wrapper looks at the frame it gets and yields it
Deliver ==
    /\ ~cancelled
    /\ pending # <<>>
    /\ LET event == Head(pending)
       IN  /\ out' = Append(out, event)
           /\ background_tasks' =
                  background_tasks
                  \o TasksAdded(event, w_message_id, collected_delta)
           /\ IF event.sse = "[DONE]"
              THEN UNCHANGED <<w_message_id, collected_delta>>
              ELSE /\ w_message_id' = IF event.data.type = "start"
                                      THEN event.data.messageId
                                      ELSE w_message_id
                   /\ collected_delta' =
                          IF event.data.type = "text-delta"
                          THEN Append(collected_delta, event.data.delta)
                          ELSE collected_delta
           /\ ui_messages' =
                  IF event.sse = "[DONE]"
                  THEN ListPlus(ui_messages,
                                AssistantMsg(w_message_id,
                                             collected_delta)).left
                  ELSE ui_messages
           /\ wout' = wout \o Yielded(event)
    /\ pending' = Tail(pending)
    /\ UNCHANGED restVars
    /\ UNCHANGED <<pc, inLog, message_id, localVars, available_tools, invoked,
                   raised, cancelled>>

\* Cancel with GeneratorExit caught by the handler (`except BaseException`):
\* the generator answers the close with an error frame
Cancel_Caught ==
    /\ ~cancelled
    /\ out # <<>>
    /\ pc # "returned"
    /\ cancelled' = TRUE
    /\ pending' = <<>>
    /\ pc' = "closed"
    /\ out' = Append(out, format_sse([type |-> "error",
                                      errorText |-> "GeneratorExit"]))
    /\ UNCHANGED <<ui_messages, restVars>>
    /\ UNCHANGED <<wout, inLog, message_id, localVars, available_tools,
                   invoked, raised, collected_delta, w_message_id,
                   background_tasks>>

\* the consumer closes the generator while it is suspended at a yield:
\* GeneratorExit is raised there, which `except Exception` does not catch
Cancel ==
    /\ ~cancelled
    /\ out # <<>>
    /\ pc # "returned"
    /\ cancelled' = TRUE
    /\ pending' = <<>>
    /\ pc' = "closed"
    /\ UNCHANGED <<ui_messages, restVars>>
    /\ UNCHANGED <<inLog, message_id, localVars, available_tools, invoked,
                   raised, sinkVars>>

Next ==
    \/ Start
    \/ Create
    \/ CreateFails
    \/ \E chunk \in Chunks : NextChunk(chunk)
    \/ StreamFails
    \/ StreamEnd
    \/ ProcessCall
    \/ ToolNotFound
    \/ \E outcome \in ToolOutcomes : InvokeTool(outcome)
    \/ Finish
    \/ Return
    \/ Deliver
    \/ Cancel

Spec == Init /\ [][Next]_vars

(***************************************************************************)
(* The save task.  stream_text_with_persistence adds save_chat_task to     *)
(* background_tasks when it sees the sentinel and then yields the sentinel *)
(* (utils/ai.py lines 464-497); the task opens a session of its own and    *)
(* calls save_chat (repositories/ai.py lines 51-94).  When the framework   *)
(* runs the task is not decided by this code, so here the task may begin   *)
(* and end at any moment after it was added, also before the wrapper has   *)
(* yielded the sentinel.                                                   *)
(***************************************************************************)
\* the messages of an earlier exchange of the chat
PriorMessages ==
    <<[id |-> "msg-u0", role |-> "user",
       parts |-> <<[type |-> "text", text |-> "hi"]>>],
      [id |-> "msg-a0", role |-> "assistant",
       parts |-> <<[type |-> "text", text |-> "Ola!"]>>]>>

\* routers/chat.py lines 112-132: previous_messages[:] and the new message
UiMessageLists == {<<NewUserMessage>>, PriorMessages \o <<NewUserMessage>>}

\* the Chat row of the request's chat when the task runs: deleted meanwhile,
\* owned by the user of the request, owned by somebody else
Chats == {Nothing, Some("user-1"), Some("user-2")}

\* a response of text, with or without a call of a tool
SaveChunks ==
    {TextChunk(c) : c \in Contents}
    \cup {FinishChunk(Stop), FinishChunk(ToolCalls)}
    \cup {ToolChunk(ToolCallDelta(0, "call_A", "get_weather", "{}"))}

\* repositories/ai.py lines 72-91: the Message row of one message
MessageRow(chat_id, user_id, msg_data) ==
    LET text_parts ==
            SelectSeq(msg_data.parts, LAMBDA part : part.type = "text")
    IN  [chat_id |-> chat_id, user_id |-> user_id, data |-> msg_data,
         role |-> msg_data.role,
         content |-> Join([i \in 1..Len(text_parts) |-> text_parts[i].text])]

\* save_chat without the delete of lines 66-68: the rows are added to those
\* the chat holds
save_chat_Appends(row, rows, chat_id, user_id, messages) ==
    IF row = Nothing \/ row[1] # user_id
    THEN [raises |-> "ValueError", rows |-> rows]
    ELSE [raises |-> None,
          rows |-> rows \o [i \in 1..Len(messages) |->
                                MessageRow(chat_id, user_id, messages[i])]]

\* repositories/ai.py lines 61-94: save_chat on the Chat row `row` and the
\* Message rows `rows` of the chat; what it raises and the rows it leaves
save_chat(row, rows, chat_id, user_id, messages) ==
    IF row = Nothing \/ row[1] # user_id
    THEN [raises |-> "ValueError", rows |-> rows]
    ELSE [raises |-> None,
          rows |-> [i \in 1..Len(messages) |->
                        MessageRow(chat_id, user_id, messages[i])]]

\* the rows a chat holds for the messages it was loaded with
RowsOf(messages) ==
    [i \in 1..Len(messages) |-> MessageRow("chat-1", "user-1", messages[i])]

\* what the session of the task can do: commit, or fail (the connection,
\* the commit), which leaves the rows as they were
SaveOutcomes == {"commits", "db-error"}

\* save_chat_task without its try/except: the exception leaves the task
save_chat_task_Unguarded(raises) ==
    [logged |-> <<>>, propagated |-> raises # None]

\* utils/ai.py lines 474-484: the task logs what save_chat or the session
\* raised and returns
save_chat_task(raises) ==
    [logged |-> IF raises # None THEN <<raises>> ELSE <<>>,
     propagated |-> FALSE]

\* the wrapper has added the task and has not yet yielded the sentinel
Holding ==
    /\ pending # <<>>
    /\ Head(pending).sse = "[DONE]"
    /\ save_state # "none"

\* lines 452-497 for a frame other than the sentinel
DeliverFrame ==
    /\ pending # <<>>
    /\ Head(pending).sse # "[DONE]"
    /\ Deliver

\* lines 464-486: the wrapper gets the sentinel and adds the task
Schedule ==
    /\ ~cancelled
    /\ pending # <<>>
    /\ Head(pending).sse = "[DONE]"
    /\ save_state = "none"
    /\ LET event == Head(pending)
           assistant_msg == AssistantMsg(w_message_id, collected_delta)
       IN  /\ out' = Append(out, event)
           /\ background_tasks' =
                  background_tasks
                  \o TasksAdded(event, w_message_id, collected_delta)
           /\ ui_messages' = ListPlus(ui_messages, assistant_msg).left
    /\ save_state' = "scheduled"
    /\ UNCHANGED <<pc, pending, wout, inLog, message_id, localVars,
                   available_tools, invoked, raised, cancelled,
                   collected_delta, w_message_id>>
    /\ UNCHANGED <<chat, message_rows, logged, propagated, crawlVars,
                   retrVars, serviceVars>>

\* line 497: the wrapper yields the sentinel
YieldSentinel ==
    /\ ~cancelled
    /\ Holding
    /\ wout' = wout \o Yielded(Head(pending))
    /\ pending' = Tail(pending)
    /\ UNCHANGED <<pc, out, inLog, message_id, localVars, available_tools,
                   invoked, raised, cancelled, collected_delta, w_message_id,
                   background_tasks>>
    /\ UNCHANGED <<ui_messages, restVars>>

\* the consumer closes the generator, which it can do only while the
\* wrapper is suspended at its yield
CancelAtYield ==
    /\ ~Holding
    /\ Cancel

\* the framework starts the task
SaveBegins ==
    /\ save_state = "scheduled"
    /\ save_state' = "running"
    /\ UNCHANGED <<streamVars, ui_messages, chat, message_rows, logged,
                   propagated, crawlVars, retrVars,
                   serviceVars>>

\* lines 474-484: the task runs to its end
SaveEnds(outcome) ==
    /\ save_state = "running"
    /\ LET task == background_tasks[1]
           done == IF outcome = "db-error"
                   THEN [raises |-> "OperationalError",
                         rows |-> message_rows]
                   ELSE save_chat(chat, message_rows, task.chat_id,
                                  task.user_id, task.final_messages)
           end == save_chat_task(done.raises)
       IN  /\ message_rows' = done.rows
           /\ logged' = logged \o end.logged
           /\ propagated' = end.propagated
           /\ save_state' = IF done.raises = None THEN "saved" ELSE "failed"
    /\ UNCHANGED <<streamVars, ui_messages, chat, crawlVars, retrVars,
                   serviceVars>>

\* a request on a chat with or without earlier messages
InitSave ==
    /\ StreamInit
    /\ ui_messages \in UiMessageLists
    /\ save_state = "none"
    /\ chat \in Chats
    /\ message_rows = RowsOf(SubSeq(ui_messages, 1, Len(ui_messages) - 1))
    /\ logged = <<>>
    /\ propagated = FALSE
    /\ CrawlIdle
    /\ RetrieveIdle
    /\ ServicesIdle

NextSave ==
    \/ Start
    \/ Create
    \/ CreateFails
    \/ \E chunk \in SaveChunks : NextChunk(chunk)
    \/ StreamFails
    \/ StreamEnd
    \/ ProcessCall
    \/ ToolNotFound
    \/ \E outcome \in ToolOutcomes : InvokeTool(outcome)
    \/ Finish
    \/ Return
    \/ DeliverFrame
    \/ Schedule
    \/ YieldSentinel
    \/ CancelAtYield
    \/ SaveBegins
    \/ \E outcome \in SaveOutcomes : SaveEnds(outcome)

SpecSave == InitSave /\ [][NextSave]_vars

(***************************************************************************)
(* URLCrawler (services/scraper.py lines 159-272).  A URL is the sequence  *)
(* of its parts: the scheme "https://" and the host (both absent from a    *)
(* relative reference), the path, and "#" with the fragment after it.      *)
(* crawl is a coroutine that nothing else runs beside, so a step of the    *)
(* model runs it from one await to the next.  What a GET of a URL returns  *)
(* is chosen when the GET is made.                                         *)
(***************************************************************************)
\* the largest max_depth a crawler is built with
MaxDepth == 2

\* the largest max_urls a crawler is built with
MaxUrls == 4

\* the seed
base_url == <<"https://", "a.org", "/">>

DocUrl == <<"https://", "a.org", "/doc.pdf">>

AboutUrl == <<"https://", "a.org", "/about">>

\* the anchors of an HTML page, in document order: absolute links, with and
\* without a fragment, to the site and to another site; a relative link; a
\* link that is a fragment alone
Pages ==
    {<<>>,
     <<DocUrl \o <<"#", "p2">>, <<"https://", "b.org", "/">>, base_url>>,
     <<DocUrl, DocUrl, <<"/about">>, AboutUrl>>,
     <<<<"#", "top">>, <<"https://", "b.org", "/">>>>}

\* what client.get returns: HTML pages, a PDF, an image, and an HTML page
\* sent with an error status; a content type is the sequence of its parts
Responses ==
    {[status_code |-> 200,
      content_type |-> <<"text/html", "; charset=utf-8">>,
      anchors |-> a] : a \in Pages}
    \cup {[status_code |-> 200, content_type |-> <<"application/pdf">>,
           anchors |-> <<>>],
          [status_code |-> 200, content_type |-> <<"image/png">>,
           anchors |-> <<>>],
          [status_code |-> 404, content_type |-> <<"text/html">>,
           anchors |-> <<DocUrl, <<"https://", "b.org", "/">>>>]}

\* what client.get raises: no connection, and the timeout of line 221
GetErrors == {"ConnectError", "ReadTimeout"}

\* the pattern lists a crawler is given: none, the regular expression
\* /doc\.pdf$ (kind "ends") and the regular expression /doc\.pdf (kind "has")
PatternLists ==
    {<<>>,
     <<[kind |-> "ends", part |-> "/doc.pdf"]>>,
     <<[kind |-> "has", part |-> "/doc.pdf"]>>}

\* urlparse(url).netloc
netloc(u) == IF Len(u) >= 2 /\ u[1] = "https://" THEN u[2] ELSE ""

\* line 172
domain == netloc(base_url)

\* p.search(url)
search(p, u) ==
    IF p.kind = "ends"
    THEN u # <<>> /\ u[Len(u)] = p.part
    ELSE \E i \in DOMAIN u : u[i] = p.part

\* url.split("#")[0]
RECURSIVE BeforeFragment(_)
BeforeFragment(u) ==
    IF u = <<>> \/ Head(u) = "#" THEN <<>>
    ELSE <<Head(u)>> \o BeforeFragment(Tail(u))

\* lines 181-195: Nothing for None
_normalize_url(u) ==
    IF ~follow_external /\ netloc(u) # domain THEN Nothing
    ELSE IF exclude_patterns # <<>>
            /\ \E i \in DOMAIN exclude_patterns : search(exclude_patterns[i], u)
    THEN Nothing
    ELSE IF include_patterns # <<>>
            /\ ~\E i \in DOMAIN include_patterns :
                    search(include_patterns[i], u)
    THEN Nothing
    ELSE Some(BeforeFragment(u))

\* lines 197-209: the accepted anchors that are not visited, in order; an
\* empty URL is dropped like None (line 206)
RECURSIVE _extract_links(_)
_extract_links(anchors) ==
    IF anchors = <<>> THEN <<>>
    ELSE LET normalized == _normalize_url(Head(anchors))
         IN  (IF normalized # Nothing /\ normalized[1] # <<>>
                 /\ normalized[1] \notin visited
              THEN <<normalized[1]>> ELSE <<>>)
             \o _extract_links(Tail(anchors))

\* line 229: the condition of the loop
Looping ==
    to_visit # <<>> /\ Len(discovered_urls) < max_urls

\* Skipped without the test of the depth
Skipped_AnyDepth(u, d) == u \in visited

\* Skipped without the test of the visited set
Skipped_Revisit(u, d) == d > max_depth

\* line 232
Skipped(u, d) == u \in visited \/ d > max_depth

\* raise_for_status doing nothing
raise_for_status_Never(response) == FALSE

\* line 240: response.raise_for_status() raises
raise_for_status(response) == response.status_code >= 400

\* lines 162-179, and crawl up to its loop (lines 217-227)
CrawlInit ==
    /\ c_pc = "loop"
    /\ max_depth \in 0..MaxDepth
    /\ max_urls \in 0..MaxUrls
    /\ follow_external \in BOOLEAN
    /\ include_patterns \in PatternLists
    /\ exclude_patterns \in PatternLists
    /\ visited = {}
    /\ to_visit = <<<<base_url, 0>>>>
    /\ discovered_urls = <<>>
    /\ dequeued_at = <<>>
    /\ c_url = <<>>
    /\ c_depth = 0
    /\ c_log = <<>>

crawlParams == <<max_depth, max_urls, follow_external, include_patterns,
                 exclude_patterns>>

\* Skip reading the head of the queue without removing it
\* (self.to_visit[0] for self.to_visit.pop(0))
Skip_Peek ==
    /\ c_pc = "loop" /\ Looping
    /\ Skipped(Head(to_visit)[1], Head(to_visit)[2])
    /\ UNCHANGED vars

\* lines 229-233: the URL taken from the queue is visited or too deep
Skip ==
    /\ c_pc = "loop" /\ Looping
    /\ LET u == Head(to_visit)[1]
           d == Head(to_visit)[2]
       IN  /\ Skipped(u, d)
           /\ c_log' = Append(c_log, [op |-> "skip", url |-> u, depth |-> d])
    /\ to_visit' = Tail(to_visit)
    /\ UNCHANGED <<c_pc, crawlParams, visited, discovered_urls, dequeued_at,
                   c_url, c_depth>>
    /\ UNCHANGED <<streamVars, ui_messages, saveVars, retrVars,
                   serviceVars>>

\* Visit without self.visited.add(url)
Visit_NoMark ==
    /\ c_pc = "loop" /\ Looping
    /\ LET u == Head(to_visit)[1]
           d == Head(to_visit)[2]
       IN  /\ ~Skipped(u, d)
           /\ visited' = visited
           /\ discovered_urls' = Append(discovered_urls, u)
           /\ dequeued_at' = Append(dequeued_at, d)
           /\ c_url' = u
           /\ c_depth' = d
    /\ to_visit' = Tail(to_visit)
    /\ c_pc' = "get"
    /\ UNCHANGED <<crawlParams, c_log>>
    /\ UNCHANGED <<streamVars, ui_messages, saveVars, retrVars,
                   serviceVars>>

\* lines 229-239: the URL taken from the queue is recorded and requested
Visit ==
    /\ c_pc = "loop" /\ Looping
    /\ LET u == Head(to_visit)[1]
           d == Head(to_visit)[2]
       IN  /\ ~Skipped(u, d)
           /\ visited' = visited \cup {u}
           /\ discovered_urls' = Append(discovered_urls, u)
           /\ dequeued_at' = Append(dequeued_at, d)
           /\ c_url' = u
           /\ c_depth' = d
    /\ to_visit' = Tail(to_visit)
    /\ c_pc' = "get"
    /\ UNCHANGED <<crawlParams, c_log>>
    /\ UNCHANGED <<streamVars, ui_messages, saveVars, retrVars,
                   serviceVars>>

\* Get with the links put at the front of the queue
Get_Prepend(response) ==
    /\ c_pc = "get"
    /\ c_log' = Append(c_log, [op |-> "get", url |-> c_url,
                               error |-> None, response |-> Some(response)])
    /\ to_visit' =
           IF raise_for_status(response) THEN to_visit
           ELSE IF \E i \in DOMAIN response.content_type :
                       response.content_type[i] = "text/html"
           THEN LET new_links == _extract_links(response.anchors)
                IN  IF Len(discovered_urls) < max_urls
                    THEN [i \in 1..Len(new_links) |->
                              <<new_links[i], c_depth + 1>>]
                         \o to_visit
                    ELSE to_visit
           ELSE to_visit
    /\ c_pc' = "loop"
    /\ UNCHANGED <<crawlParams, visited, discovered_urls, dequeued_at, c_url,
                   c_depth>>
    /\ UNCHANGED <<streamVars, ui_messages, saveVars, retrVars,
                   serviceVars>>

\* lines 239-261: client.get returns
Get(response) ==
    /\ c_pc = "get"
    /\ c_log' = Append(c_log, [op |-> "get", url |-> c_url,
                               error |-> None, response |-> Some(response)])
    /\ to_visit' =
           IF raise_for_status(response) THEN to_visit
           ELSE IF \E i \in DOMAIN response.content_type :
                       response.content_type[i] = "text/html"
           THEN LET new_links == _extract_links(response.anchors)
                IN  IF Len(discovered_urls) < max_urls
                    THEN to_visit
                         \o [i \in 1..Len(new_links) |->
                                 <<new_links[i], c_depth + 1>>]
                    ELSE to_visit
           ELSE to_visit
    /\ c_pc' = "loop"
    /\ UNCHANGED <<crawlParams, visited, discovered_urls, dequeued_at, c_url,
                   c_depth>>
    /\ UNCHANGED <<streamVars, ui_messages, saveVars, retrVars,
                   serviceVars>>

\* lines 239 and 259-261: client.get raises
GetFails(error) ==
    /\ c_pc = "get"
    /\ c_log' = Append(c_log, [op |-> "get", url |-> c_url,
                               error |-> error, response |-> Nothing])
    /\ c_pc' = "loop"
    /\ UNCHANGED <<crawlParams, visited, to_visit, discovered_urls,
                   dequeued_at, c_url, c_depth>>
    /\ UNCHANGED <<streamVars, ui_messages, saveVars, retrVars,
                   serviceVars>>

\* lines 229 and 263-267: the loop ends and crawl returns discovered_urls
CrawlReturn ==
    /\ c_pc = "loop" /\ ~Looping
    /\ c_pc' = "returned"
    /\ UNCHANGED <<crawlParams, visited, to_visit, discovered_urls,
                   dequeued_at, c_url, c_depth, c_log>>
    /\ UNCHANGED <<streamVars, ui_messages, saveVars, retrVars,
                   serviceVars>>

\* no response is being streamed
StreamIdle ==
    /\ StreamInit
    /\ available_tools = {}
    /\ ui_messages = <<>>

InitCrawl ==
    /\ StreamIdle
    /\ SaveIdle
    /\ CrawlInit
    /\ RetrieveIdle
    /\ ServicesIdle

NextCrawl ==
    \/ Skip
    \/ Visit
    \/ \E response \in Responses : Get(response)
    \/ \E error \in GetErrors : GetFails(error)
    \/ CrawlReturn

SpecCrawl == InitCrawl /\ [][NextCrawl]_vars

\* every GET returns or raises within the timeout of the client, and the
\* event loop resumes the coroutine
SpecCrawlFair == SpecCrawl /\ WF_vars(NextCrawl)

(***************************************************************************)
(* retrieve_docs (services/embedding.py lines 45-111).  The query and its  *)
(* rewritten variants are searched one after the other; a search returns   *)
(* at most k pairs of a document and its distance to the query, nearest    *)
(* first, or raises.  The dictionaries all_docs and doc_scores are         *)
(* sequences of entries                                                    *)
(* [key, value] in the order of insertion, which is the order their        *)
(* values() are read in.                                                   *)
(***************************************************************************)
\* the largest number of queries searched (the query and its variants)
MaxVariants == 2

\* the largest k retrieve_docs is called with
MaxK == 2

\* line 93: the length of the prefix that is the deduplication key
KeyLength == 100

Min(a, b) == IF a <= b THEN a ELSE b

\* the text of the documents of the store: two short ones, and two that
\* differ only after their first KeyLength characters.  A text is the
\* sequence of its runs <<character, length>>.
page_content(doc) ==
    CASE doc = "prova" ->
             <<<<"p", 1>>, <<"r", 1>>, <<"o", 1>>, <<"v", 1>>, <<"a", 1>>>>
      [] doc = "data" -> <<<<"d", 1>>, <<"a", 1>>, <<"t", 1>>, <<"a", 1>>>>
      [] doc = "edital-1" -> <<<<"x", KeyLength>>, <<"1", 1>>>>
      [] doc = "edital-2" -> <<<<"x", KeyLength>>, <<"2", 1>>>>

\* text[:n]
RECURSIVE Prefix(_, _)
Prefix(text, n) ==
    IF text = <<>> \/ n <= 0 THEN <<>>
    ELSE IF Head(text)[2] <= n
    THEN <<Head(text)>> \o Prefix(Tail(text), n - Head(text)[2])
    ELSE <<<<Head(text)[1], n>>>>

\* pairs <<document, score>> a search can return
Hits ==
    {<<"prova", 2>>, <<"edital-1", 2>>, <<"edital-2", 1>>, <<"edital-2", 3>>,
     <<"data", 1>>}

\* line 89: what similarity_search_with_score returns: at most MaxK pairs,
\* no document twice, by non-decreasing score
ResultLists ==
    {results \in UNION {[1..n -> Hits] : n \in 0..MaxK} :
        \A i, j \in DOMAIN results :
            i < j => /\ results[i][1] # results[j][1]
                     /\ results[i][2] <= results[j][2]}

\* line 93: doc.page_content[:100]
doc_key(doc) == Prefix(page_content(doc), KeyLength)

\* key in dict
Has(dict, key) == \E i \in DOMAIN dict : dict[i].key = key

\* dict[key]
Lookup(dict, key) ==
    dict[CHOOSE i \in DOMAIN dict : dict[i].key = key].value

\* dict[key] = value: a new key goes to the end, a known key keeps its place
Put(dict, key, value) ==
    IF Has(dict, key)
    THEN [i \in DOMAIN dict |->
              IF dict[i].key = key THEN [key |-> key, value |-> value]
              ELSE dict[i]]
    ELSE Append(dict, [key |-> key, value |-> value])

\* Better taking the score seen last
Better_Latest(score, best) == TRUE

\* line 96: score < doc_scores[doc_key]
Better(score, best) == score < best

\* lines 91-98: the loop over the results of one search, on
\* D = [all_docs, doc_scores]
RECURSIVE Merge(_, _)
Merge(D, results) ==
    IF results = <<>> THEN D
    ELSE LET doc == Head(results)[1]
             score == Head(results)[2]
             key == doc_key(doc)
         IN  Merge(IF ~Has(D.doc_scores, key)
                      \/ Better(score, Lookup(D.doc_scores, key))
                   THEN [all_docs |-> Put(D.all_docs, key, doc),
                         doc_scores |-> Put(D.doc_scores, key, score)]
                   ELSE D,
                   Tail(results))

\* OnSearchError giving up what was collected
OnSearchError_Reset(D) == [all_docs |-> <<>>, doc_scores |-> <<>>]

\* lines 100-101: the search raised; the loop goes on with the next query
OnSearchError(D) == D

\* lines 86-101: one iteration of the loop over queries_to_search
SearchStep(D, outcome) ==
    IF outcome.raises THEN OnSearchError(D) ELSE Merge(D, outcome.results)

\* lines 83-101: the loop over queries_to_search
RECURSIVE SearchAll(_, _)
SearchAll(D, outcomes) ==
    IF outcomes = <<>> THEN D
    ELSE SearchAll(SearchStep(D, Head(outcomes)), Tail(outcomes))

\* zip(all_docs.values(), doc_scores.values())
Zip(D) ==
    [i \in 1..Min(Len(D.all_docs), Len(D.doc_scores)) |->
         [doc |-> D.all_docs[i].value, score |-> D.doc_scores[i].value]]

RECURSIVE InsertByScore(_, _)
InsertByScore(sorted, pair) ==
    IF sorted = <<>> THEN <<pair>>
    ELSE IF pair.score < Head(sorted).score THEN <<pair>> \o sorted
    ELSE <<Head(sorted)>> \o InsertByScore(Tail(sorted), pair)

\* sorted_docs with the sort left out
sorted_docs_Unsorted(pairs) == pairs

\* lines 104-107: sorted(..., key=lambda x: x[1]), which keeps the order of
\* pairs of equal score
RECURSIVE sorted_docs(_)
sorted_docs(pairs) ==
    IF pairs = <<>> THEN <<>>
    ELSE InsertByScore(sorted_docs(SubSeq(pairs, 1, Len(pairs) - 1)),
                       pairs[Len(pairs)])

\* lines 104-111: the documents of the first top_k sorted pairs
TopK(D, top_k) ==
    LET pairs == sorted_docs(Zip(D))
    IN  [i \in 1..Min(top_k, Len(pairs)) |-> pairs[i].doc]

\* lines 56-84: retrieve_docs is called and reaches its loop
RetrieveInit ==
    /\ r_pc = "search"
    /\ r_k \in 1..MaxK
    /\ searched = <<>>
    /\ all_docs = <<>>
    /\ doc_scores = <<>>
    /\ r_result = <<>>

\* lines 86-98: the search of the next query returns
SearchReturns(results) ==
    /\ r_pc = "search"
    /\ Len(searched) < MaxVariants
    /\ Len(results) <= r_k
    /\ LET outcome == [raises |-> FALSE, results |-> results]
           D == SearchStep([all_docs |-> all_docs, doc_scores |-> doc_scores],
                           outcome)
       IN  /\ searched' = Append(searched, outcome)
           /\ all_docs' = D.all_docs
           /\ doc_scores' = D.doc_scores
    /\ UNCHANGED <<r_pc, r_k, r_result>>
    /\ UNCHANGED <<streamVars, ui_messages, saveVars, crawlVars,
                   serviceVars>>

\* lines 86-89 and 100-101: the search of the next query raises
SearchRaises ==
    /\ r_pc = "search"
    /\ Len(searched) < MaxVariants
    /\ LET outcome == [raises |-> TRUE, results |-> <<>>]
           D == SearchStep([all_docs |-> all_docs, doc_scores |-> doc_scores],
                           outcome)
       IN  /\ searched' = Append(searched, outcome)
           /\ all_docs' = D.all_docs
           /\ doc_scores' = D.doc_scores
    /\ UNCHANGED <<r_pc, r_k, r_result>>
    /\ UNCHANGED <<streamVars, ui_messages, saveVars, crawlVars,
                   serviceVars>>

\* lines 103-111: every query was searched (there is at least the query
\* itself, line 74); sort and return
SortAndReturn ==
    /\ r_pc = "search"
    /\ searched # <<>>
    /\ r_result' = TopK([all_docs |-> all_docs, doc_scores |-> doc_scores],
                        r_k)
    /\ r_pc' = "returned"
    /\ UNCHANGED <<r_k, searched, all_docs, doc_scores>>
    /\ UNCHANGED <<streamVars, ui_messages, saveVars, crawlVars,
                   serviceVars>>

InitRetrieve ==
    /\ StreamIdle
    /\ SaveIdle
    /\ CrawlIdle
    /\ ServicesIdle
    /\ RetrieveInit

NextRetrieve ==
    \/ \E results \in ResultLists : SearchReturns(results)
    \/ SearchRaises
    \/ SortAndReturn

SpecRetrieve == InitRetrieve /\ [][NextRetrieve]_vars

(***************************************************************************)
(* QueryRewriter (services/query_rewriter.py).  A text is the sequence of  *)
(* its characters.  rewrite makes its generation calls                     *)
(* (client.chat.completions.create) one after the other; what a call       *)
(* returns or raises is chosen when the call is made.                      *)
(***************************************************************************)
\* the queries rewrite is called with: "abc", " Abc", "ab" and ""
Queries ==
    {<<"a", "b", "c">>, <<" ", "A", "b", "c">>, <<"a", "b">>, <<>>,
     <<" ", "a", "b", " ">>}

\* RewriteStrategy, lines 13-19
Strategies == {"expansion", "simplification", "reformulation", "combined"}

\* the texts a completion holds: five lines (one repeats the query in other
\* case, one is blank, one comes twice), one line, a quoted text, the query
\* between blanks, a pair of quotes alone, and the empty text
Completions ==
    {<<"A", "B", "C", "\n", "a", "b", "d", "\n", " ", "\n",
       "a", "b", "d", "\n", "a", "b", "e">>,
     <<"a", "b", "e">>,
     <<"\"", "a", "b", "d", "\"">>,
     <<" ", "a", "b", "c", " ">>,
     <<"\"", "\"">>,
     <<>>}

\* what a generation call does: it raises, or it returns a message whose
\* content is None or a text
Generations ==
    {[raises |-> TRUE, content |-> Nothing],
     [raises |-> FALSE, content |-> Nothing]}
    \cup {[raises |-> FALSE, content |-> Some(c)] : c \in Completions}

\* str.lower()
lower(text) ==
    [i \in DOMAIN text |->
        CASE text[i] = "A" -> "a"
          [] text[i] = "B" -> "b"
          [] text[i] = "C" -> "c"
          [] OTHER -> text[i]]

\* the characters str.strip() removes
Whitespace == {" ", "\n"}

RECURSIVE lstrip(_, _)
lstrip(text, chars) ==
    IF text # <<>> /\ Head(text) \in chars THEN lstrip(Tail(text), chars)
    ELSE text

RECURSIVE rstrip(_, _)
rstrip(text, chars) ==
    IF text # <<>> /\ text[Len(text)] \in chars
    THEN rstrip(SubSeq(text, 1, Len(text) - 1), chars)
    ELSE text

\* str.strip(chars)
strip(text, chars) == rstrip(lstrip(text, chars), chars)

\* str.split(sep) for a separator of one character
RECURSIVE split(_, _)
split(text, sep) ==
    IF \A i \in DOMAIN text : text[i] # sep THEN <<text>>
    ELSE LET i == CHOOSE i \in DOMAIN text :
                      /\ text[i] = sep
                      /\ \A j \in 1..(i - 1) : text[j] # sep
         IN  <<SubSeq(text, 1, i - 1)>>
             \o split(SubSeq(text, i + 1, Len(text)), sep)

\* the test of line 181 on the text as it was given
TooShort_Unstripped(query) == query = <<>> \/ Len(query) < 3

\* lines 34, 77, 129 and 181: not query or len(query.strip()) < 3
TooShort(query) == query = <<>> \/ Len(strip(query, Whitespace)) < 3

\* lines 33-74: the list expand_query returns
expand_query(query, num_variations, generation) ==
    IF TooShort(query) \/ generation.raises THEN <<query>>
    ELSE LET content == IF generation.content = Nothing THEN <<>>
                        ELSE generation.content[1]
             lines == split(content, "\n")
             variations ==
                 SelectSeq([i \in DOMAIN lines |->
                                strip(lines[i], Whitespace)],
                           LAMBDA line : line # <<>>)
         IN  <<query>>
             \o SubSeq(variations, 1, Min(num_variations, Len(variations)))

\* lines 76-114: the text simplify_query returns
simplify_query(query, generation) ==
    IF TooShort(query) \/ generation.raises THEN query
    ELSE LET simplified ==
                 IF generation.content = Nothing
                    \/ generation.content[1] = <<>>
                 THEN query ELSE generation.content[1]
         IN  strip(strip(simplified, Whitespace), {"\""})

\* reformulate_query that gives up its text
reformulate_query_Discards(query, generation) == query

\* lines 116-166: the text reformulate_query returns
reformulate_query(query, generation) ==
    IF TooShort(query) \/ generation.raises THEN query
    ELSE LET reformulated ==
                 IF generation.content = Nothing
                    \/ generation.content[1] = <<>>
                 THEN query ELSE generation.content[1]
         IN  strip(strip(reformulated, Whitespace), {"\""})

\* lines 187-210: the calls a strategy makes, in order
Plan(strategy) ==
    CASE strategy = "expansion" -> <<"expand_query">>
      [] strategy = "simplification" -> <<"simplify_query">>
      [] strategy = "reformulation" -> <<"reformulate_query">>
      [] strategy = "combined" ->
             <<"expand_query", "simplify_query", "reformulate_query">>

\* lines 188 and 202: num_variations
NumVariations(strategy) == IF strategy = "expansion" THEN 3 ELSE 2

\* q_lower comparing the texts as they are written
q_lower_CaseKept(q) == strip(q, Whitespace)

\* line 216
q_lower(q) == strip(lower(q), Whitespace)

\* lines 213-219: the queries whose key is not empty and not seen before
RECURSIVE Unique(_, _)
Unique(queries, seen) ==
    IF queries = <<>> THEN <<>>
    ELSE IF q_lower(Head(queries)) # <<>>
            /\ q_lower(Head(queries)) \notin seen
    THEN <<Head(queries)>>
         \o Unique(Tail(queries), seen \cup {q_lower(Head(queries))})
    ELSE Unique(Tail(queries), seen)

\* everything that is not the rewriter's
notRewrite == <<streamVars, ui_messages, saveVars, crawlVars, retrVars,
                lifespanVars, storeVars, scrapeVars, moreVars>>

\* rewrite is called
RewriteInit ==
    /\ rw_pc = "called"
    /\ rw_query \in Queries
    /\ rw_strategy \in Strategies
    /\ rw_todo = <<>>
    /\ rw_queries = <<>>
    /\ rw_calls = <<>>
    /\ unique_queries = <<>>

\* lines 181-182
RewriteShort ==
    /\ rw_pc = "called"
    /\ TooShort(rw_query)
    /\ unique_queries' = <<rw_query>>
    /\ rw_pc' = "returned"
    /\ UNCHANGED <<rw_query, rw_strategy, rw_todo, rw_queries, rw_calls>>
    /\ UNCHANGED notRewrite

\* line 184, and the branch of lines 187-200 the strategy selects
RewriteBegin ==
    /\ rw_pc = "called"
    /\ ~TooShort(rw_query)
    /\ rw_queries' = <<rw_query>>
    /\ rw_todo' = Plan(rw_strategy)
    /\ rw_pc' = "calls"
    /\ UNCHANGED <<rw_query, rw_strategy, rw_calls, unique_queries>>
    /\ UNCHANGED notRewrite

\* lines 188 and 202
Expand(generation) ==
    /\ rw_pc = "calls"
    /\ rw_todo # <<>> /\ Head(rw_todo) = "expand_query"
    /\ LET returned == expand_query(rw_query, NumVariations(rw_strategy),
                                    generation)
       IN  /\ rw_queries' = rw_queries \o returned
           /\ rw_calls' = Append(rw_calls,
                                 [fn |-> "expand_query",
                                  raises |-> generation.raises,
                                  content |-> generation.content])
    /\ rw_todo' = Tail(rw_todo)
    /\ UNCHANGED <<rw_pc, rw_query, rw_strategy, unique_queries>>
    /\ UNCHANGED notRewrite

\* lines 191-193 and 204-206
Simplify(generation) ==
    /\ rw_pc = "calls"
    /\ rw_todo # <<>> /\ Head(rw_todo) = "simplify_query"
    /\ LET simplified == simplify_query(rw_query, generation)
           appended == IF simplified # rw_query THEN <<simplified>>
                       ELSE <<>>
       IN  /\ rw_queries' = rw_queries \o appended
           /\ rw_calls' = Append(rw_calls,
                                 [fn |-> "simplify_query",
                                  raises |-> generation.raises,
                                  content |-> generation.content])
    /\ rw_todo' = Tail(rw_todo)
    /\ UNCHANGED <<rw_pc, rw_query, rw_strategy, unique_queries>>
    /\ UNCHANGED notRewrite

\* lines 196-198 and 208-210
Reformulate(generation) ==
    /\ rw_pc = "calls"
    /\ rw_todo # <<>> /\ Head(rw_todo) = "reformulate_query"
    /\ LET reformulated == reformulate_query(rw_query, generation)
           appended == IF reformulated # rw_query THEN <<reformulated>>
                       ELSE <<>>
       IN  /\ rw_queries' = rw_queries \o appended
           /\ rw_calls' = Append(rw_calls,
                                 [fn |-> "reformulate_query",
                                  raises |-> generation.raises,
                                  content |-> generation.content])
    /\ rw_todo' = Tail(rw_todo)
    /\ UNCHANGED <<rw_pc, rw_query, rw_strategy, unique_queries>>
    /\ UNCHANGED notRewrite

\* lines 212-224
RewriteReturn ==
    /\ rw_pc = "calls"
    /\ rw_todo = <<>>
    /\ unique_queries' = Unique(rw_queries, {})
    /\ rw_pc' = "returned"
    /\ UNCHANGED <<rw_query, rw_strategy, rw_todo, rw_queries, rw_calls>>
    /\ UNCHANGED notRewrite

InitRewrite ==
    /\ StreamIdle
    /\ SaveIdle
    /\ CrawlIdle
    /\ RetrieveIdle
    /\ RewriteInit
    /\ LifespanIdle
    /\ StoreIdle
    /\ ScrapeIdle
    /\ MoreIdle

NextRewrite ==
    \/ RewriteShort
    \/ RewriteBegin
    \/ \E generation \in Generations : Expand(generation)
    \/ \E generation \in Generations : Simplify(generation)
    \/ \E generation \in Generations : Reformulate(generation)
    \/ RewriteReturn

SpecRewrite == InitRewrite /\ [][NextRewrite]_vars

(***************************************************************************)
(* lifespan (main.py lines 16-42) with the settings object it reads        *)
(* (config/settings.py) and the index directory it tests                   *)
(* (chroma_db_populated, services/embedding.py lines 146-158).  A settings *)
(* object is a record of the fields class Settings declares; INGEST_URLS   *)
(* of the environment is not one of them, and extra="ignore" (line 9)      *)
(* drops it.  A step starts the application (lifespan up to its yield) or  *)
(* stops it.                                                               *)
(***************************************************************************)
\* config/settings.py lines 30-36: every value of the ingestion fields
SettingsObjects ==
    [INGEST_BASE_URL : {<<"https://a.org/doc.pdf">>},
     INGEST_ON_STARTUP : BOOLEAN,
     INGEST_FORCE : BOOLEAN]

\* INGEST_URLS in the environment: unset, empty, one URL, and two URLs with
\* blank items between them; a text is the sequence of its commas, its
\* blanks and its runs of other characters
Environs ==
    {Nothing, Some(<<>>), Some(<<"https://a.org/doc.pdf">>),
     Some(<<"https://a.org/", ",", " ", ",", " ", "https://b.org/">>)}

\* CHROMA_DB_PATH: no directory, an empty one, one with entries, and one
\* os.scandir cannot read
Directories == {"missing", "empty", "populated", "unreadable"}

\* services/embedding.py lines 146-158
chroma_db_populated(directory) == directory = "populated"

\* main.py lines 22-23: the items of raw that are not blank, stripped
UrlList(raw) ==
    LET items == split(raw, ",")
    IN  SelectSeq([i \in DOMAIN items |-> strip(items[i], Whitespace)],
                  LAMBDA u : u # <<>>)

\* services/embedding.py lines 113-144, called with a list: scrape hands the
\* list to URLCrawler, whose urlparse(base_url) (scraper.py line 172)
\* raises for a list before anything is fetched or written
create_vector_store(urls) ==
    [raises |-> "AttributeError", persisted |-> FALSE]

\* main.py lines 21-40: what one startup does with the settings object s
\* and the index directory: what lifespan raises, whether it has called
\* create_vector_store, and whether the index was written
lifespan(s, directory) ==
    IF ~s.INGEST_ON_STARTUP
    THEN [raises |-> None, invoked |-> FALSE, persisted |-> FALSE]
    ELSE IF "INGEST_URLS" \notin DOMAIN s
    THEN [raises |-> "AttributeError", invoked |-> FALSE,
          persisted |-> FALSE]
    ELSE LET urls == UrlList(s.INGEST_URLS)
         IN  IF urls = <<>>
                \/ (chroma_db_populated(directory) /\ ~s.INGEST_FORCE)
             THEN [raises |-> None, invoked |-> FALSE, persisted |-> FALSE]
             ELSE [raises |-> None, invoked |-> TRUE,
                   persisted |-> create_vector_store(urls).persisted]

\* everything that is not lifespan's
notLifespan == <<streamVars, ui_messages, saveVars, crawlVars, retrVars,
                 rewriteVars, storeVars, scrapeVars,
              moreVars>>

\* the process is about to start
LifespanInit ==
    /\ l_pc = "down"
    /\ settings \in SettingsObjects
    /\ environ \in Environs
    /\ chroma_db \in Directories
    /\ l_last = Nothing

\* main.py lines 16-42: the application starts
Startup ==
    /\ l_pc = "down"
    /\ LET done == lifespan(settings, chroma_db)
       IN  /\ l_pc' = IF done.raises = None THEN "serving" ELSE "failed"
           /\ chroma_db' = IF done.persisted THEN "populated" ELSE chroma_db
           /\ l_last' = Some([populated |-> chroma_db_populated(chroma_db),
                              invoked |-> done.invoked,
                              raises |-> done.raises])
    /\ UNCHANGED <<settings, environ>>
    /\ UNCHANGED notLifespan

\* the process ends: the server is stopped, or the startup has failed
Exit ==
    /\ l_pc # "down"
    /\ l_pc' = "down"
    /\ UNCHANGED <<settings, environ, chroma_db, l_last>>
    /\ UNCHANGED notLifespan

InitLifespan ==
    /\ StreamIdle
    /\ SaveIdle
    /\ CrawlIdle
    /\ RetrieveIdle
    /\ RewriteIdle
    /\ LifespanInit
    /\ StoreIdle
    /\ ScrapeIdle
    /\ MoreIdle

NextLifespan ==
    \/ Startup
    \/ Exit

SpecLifespan == InitLifespan /\ [][NextLifespan]_vars

(***************************************************************************)
(* The chat repository (repositories/ai.py).  Every function runs in the   *)
(* session of one request and commits at its end, so a step is one call.   *)
(* The tables hold the Chat row and the Message rows of every chat id.     *)
(***************************************************************************)
\* the ids uuid4 gives to new chats (models/ai.py line 10)
ChatIds == {"chat-1", "chat-2"}

\* the ids a caller can name: those, and one no chat has
NamedIds == ChatIds \cup {"chat-0"}

Users == {"user-1", "user-2"}

\* the message lists a caller saves
SavedLists == {<<>>, <<NewUserMessage>>, PriorMessages}

\* session.get(Chat, chat_id)
ChatRow(chat_id) ==
    IF chat_id \in DOMAIN chat_table THEN chat_table[chat_id] ELSE Nothing

\* the Message rows whose chat_id is the given id (lines 35-41, 67, 163)
MessagesOf(chat_id) ==
    IF chat_id \in DOMAIN message_table THEN message_table[chat_id]
    ELSE <<>>

\* lines 20-48: load_chat on the Chat row `row` and the Message rows `rows`
\* of the chat; what it raises and the list it returns
load_chat(row, rows, chat_id, user_id) ==
    IF row = Nothing \/ row[1] # user_id
    THEN [raises |-> "ValueError", returned |-> <<>>]
    ELSE [raises |-> None,
          returned |-> [i \in DOMAIN rows |-> rows[i].data]]

\* delete_chat without the test of the owner
delete_chat_AnyOwner(row, rows, chat_id, user_id) ==
    IF row = Nothing
    THEN [raises |-> "ValueError", row |-> row, rows |-> rows]
    ELSE [raises |-> None, row |-> Nothing, rows |-> <<>>]

\* lines 148-168: delete_chat; what it raises and the rows it leaves
delete_chat(row, rows, chat_id, user_id) ==
    IF row = Nothing \/ row[1] # user_id
    THEN [raises |-> "ValueError", row |-> row, rows |-> rows]
    ELSE [raises |-> None, row |-> Nothing, rows |-> <<>>]

\* everything that is not the repository's
notStore == <<streamVars, ui_messages, saveVars, crawlVars, retrVars,
              rewriteVars, lifespanVars, scrapeVars,
              moreVars>>

\* the tables before the first chat is created
StoreInit ==
    /\ chat_table = [c \in ChatIds |-> Nothing]
    /\ message_table = [c \in ChatIds |-> <<>>]
    /\ created = {}
    /\ last_op = Nothing

\* lines 11-17
CreateChat(user_id) ==
    /\ \E c \in ChatIds \ created :
           /\ chat_table' = [chat_table EXCEPT ![c] = Some(user_id)]
           /\ created' = created \cup {c}
           /\ last_op' = Some([op |-> "create_chat", chat_id |-> c,
                               user_id |-> user_id, raises |-> None,
                               returned |-> <<>>])
    /\ UNCHANGED message_table
    /\ UNCHANGED notStore

\* lines 20-48
LoadChat(chat_id, user_id) ==
    /\ LET done == load_chat(ChatRow(chat_id), MessagesOf(chat_id),
                             chat_id, user_id)
       IN  last_op' = Some([op |-> "load_chat", chat_id |-> chat_id,
                            user_id |-> user_id, raises |-> done.raises,
                            returned |-> done.returned])
    /\ UNCHANGED <<chat_table, message_table, created>>
    /\ UNCHANGED notStore

\* lines 51-94
SaveChat(chat_id, user_id, msgs) ==
    /\ LET done == save_chat(ChatRow(chat_id), MessagesOf(chat_id),
                             chat_id, user_id, msgs)
       IN  /\ message_table' =
                  IF done.raises = None
                  THEN [message_table EXCEPT ![chat_id] = done.rows]
                  ELSE message_table
           /\ last_op' = Some([op |-> "save_chat", chat_id |-> chat_id,
                               user_id |-> user_id, raises |-> done.raises,
                               returned |-> <<>>, saved |-> msgs])
    /\ UNCHANGED <<chat_table, created>>
    /\ UNCHANGED notStore

\* lines 148-168
DeleteChat(chat_id, user_id) ==
    /\ LET done == delete_chat(ChatRow(chat_id), MessagesOf(chat_id),
                               chat_id, user_id)
       IN  /\ chat_table' =
                  IF done.raises = None
                  THEN [chat_table EXCEPT ![chat_id] = done.row]
                  ELSE chat_table
           /\ message_table' =
                  IF done.raises = None
                  THEN [message_table EXCEPT ![chat_id] = done.rows]
                  ELSE message_table
           /\ last_op' = Some([op |-> "delete_chat", chat_id |-> chat_id,
                               user_id |-> user_id, raises |-> done.raises,
                               returned |-> <<>>])
    /\ UNCHANGED created
    /\ UNCHANGED notStore

InitStore ==
    /\ StreamIdle
    /\ SaveIdle
    /\ CrawlIdle
    /\ RetrieveIdle
    /\ RewriteIdle
    /\ LifespanIdle
    /\ StoreInit
    /\ ScrapeIdle
    /\ MoreIdle

NextStore ==
    \/ \E user_id \in Users : CreateChat(user_id)
    \/ \E chat_id \in NamedIds, user_id \in Users : LoadChat(chat_id, user_id)
    \/ \E chat_id \in NamedIds, user_id \in Users, msgs \in SavedLists :
           SaveChat(chat_id, user_id, msgs)
    \/ \E chat_id \in NamedIds, user_id \in Users :
           DeleteChat(chat_id, user_id)

SpecStore == InitStore /\ [][NextStore]_vars

(***************************************************************************)
(* scrape, scrape_html, scrape_pdf and extract_pdf_text                    *)
(* (services/scraper.py lines 44-156 and 274-338).  scrape first crawls    *)
(* (URLCrawler, above) and then requests every URL the crawl returned; it  *)
(* is a coroutine that nothing else runs beside, so a step runs it from    *)
(* one GET to the next.  An HTML document is the sequence of its elements  *)
(* (tag and text), a PDF document is readable or not and has pages whose   *)
(* extract_text returns a text or raises; a text is the sequence of its    *)
(* words and blanks.                                                       *)
(***************************************************************************)
\* the lists crawl returns to scrape (line 294)
CrawledLists == {<<base_url>>, <<base_url, DocUrl>>}

\* HTML documents: one without elements, one of script and nav alone, one
\* with a title, a paragraph and a script, and the page of an error status
HtmlDocuments ==
    {<<>>,
     <<[tag |-> "script", text |-> <<"x">>],
       [tag |-> "nav", text |-> <<"menu">>]>>,
     <<[tag |-> "title", text |-> <<" ", "T">>],
       [tag |-> "p", text |-> <<" ", "a", "\n", "\n", "b", " ">>],
       [tag |-> "script", text |-> <<"x">>]>>,
     <<[tag |-> "p", text |-> <<"Not", " ", "Found">>]>>}

\* PDF documents: one PdfReader cannot read, one without pages, a scan (a
\* page without text and a page of blanks), and one with text on two pages
\* and a page whose extract_text raises
PdfDocuments ==
    {[readable |-> FALSE, title |-> Nothing, pages |-> <<>>],
     [readable |-> TRUE, title |-> Nothing, pages |-> <<>>],
     [readable |-> TRUE, title |-> Nothing,
      pages |-> <<[raises |-> FALSE, text |-> <<>>],
                  [raises |-> FALSE, text |-> <<" ", "\n">>]>>],
     [readable |-> TRUE, title |-> Some(<<"Edital">>),
      pages |-> <<[raises |-> FALSE, text |-> <<"a", "\n", "b">>],
                  [raises |-> TRUE, text |-> <<>>],
                  [raises |-> FALSE, text |-> <<"c">>]>>]}

\* what client.get returns to scrape and to scrape_pdf
ScrapeResponses ==
    {[status_code |-> 200, content_type |-> <<"text/html">>, body |-> d] :
         d \in HtmlDocuments \ {<<[tag |-> "p",
                                   text |-> <<"Not", " ", "Found">>]>>}}
    \cup {[status_code |-> 404, content_type |-> <<"text/html">>,
           body |-> <<[tag |-> "p", text |-> <<"Not", " ", "Found">>]>>]}
    \cup {[status_code |-> 200, content_type |-> <<"application/pdf">>,
           body |-> d] : d \in PdfDocuments}
    \cup {[status_code |-> 404, content_type |-> <<"application/pdf">>,
           body |-> [readable |-> FALSE, title |-> Nothing, pages |-> <<>>]],
          [status_code |-> 200, content_type |-> <<"image/png">>,
           body |-> <<>>]}

\* `part in content_type`
InContentType(part, response) ==
    \E i \in DOMAIN response.content_type : response.content_type[i] = part

\* re.sub(r"\s+", " ", text)
RECURSIVE CollapseWhitespace(_)
CollapseWhitespace(text) ==
    IF text = <<>> THEN <<>>
    ELSE IF Head(text) \in Whitespace
    THEN <<" ">> \o CollapseWhitespace(lstrip(text, Whitespace))
    ELSE <<Head(text)>> \o CollapseWhitespace(Tail(text))

\* sep.join(texts)
RECURSIVE JoinWith(_, _)
JoinWith(texts, sep) ==
    IF texts = <<>> THEN <<>>
    ELSE IF Len(texts) = 1 THEN texts[1]
    ELSE texts[1] \o <<sep>> \o JoinWith(Tail(texts), sep)

\* lines 23-24
TagsRemoved ==
    {"script", "style", "noscript", "template",
     "header", "footer", "nav", "aside"}

\* lines 134-153: the ScrapeResult of an HTML response
scrape_html(url, response) ==
    LET kept == SelectSeq(response.body, LAMBDA e : e.tag \notin TagsRemoved)
        nodes == SelectSeq([i \in DOMAIN kept |->
                                strip(kept[i].text, Whitespace)],
                           LAMBDA t : t # <<>>)
        titles == SelectSeq(response.body, LAMBDA e : e.tag = "title")
    IN  Some([url |-> url,
              text |-> strip(CollapseWhitespace(JoinWith(nodes, " ")),
                             Whitespace),
              title |-> IF titles # <<>> /\ titles[1].text # <<>>
                        THEN Some(strip(titles[1].text, Whitespace))
                        ELSE Nothing,
              status_code |-> response.status_code])

\* lines 44-77: the text of a PDF, Nothing for None
extract_pdf_text(pdf) ==
    IF ~pdf.readable \/ pdf.pages = <<>> THEN Nothing
    ELSE LET pages == SelectSeq(pdf.pages,
                                LAMBDA q : ~q.raises /\ q.text # <<>>)
             text_parts == [i \in DOMAIN pages |-> pages[i].text]
         IN  IF text_parts = <<>> THEN Nothing
             ELSE Some(strip(CollapseWhitespace(JoinWith(text_parts, "\n")),
                             Whitespace))

\* the bytes of a response read as a PDF
PdfOf(response) ==
    IF InContentType("application/pdf", response) THEN response.body
    ELSE [readable |-> FALSE, title |-> Nothing, pages |-> <<>>]

\* lines 87-125: the ScrapeResult of the response scrape_pdf got, Nothing
\* for None
scrape_pdf(url, response) ==
    IF raise_for_status(response) THEN Nothing
    ELSE LET text == extract_pdf_text(PdfOf(response))
         IN  IF text = Nothing \/ text[1] = <<>> THEN Nothing
             ELSE Some([url |-> url,
                        text |-> text[1],
                        title |-> IF PdfOf(response).title # Nothing
                                  THEN PdfOf(response).title
                                  ELSE IF url = DocUrl THEN Some(<<"doc">>)
                                  ELSE Some(<<"PDF", " ", "Document">>),
                        status_code |-> response.status_code])

\* everything that is not scrape's
notScrape == <<streamVars, ui_messages, saveVars, crawlVars, retrVars,
               rewriteVars, lifespanVars, storeVars,
              moreVars>>

\* lines 293-300: the crawl has returned its list; every URL of a crawl
\* that began at base_url has a scheme, so line 297 leaves it as it is
ScrapeInit ==
    /\ s_pc = "loop"
    /\ s_todo \in CrawledLists
    /\ s_results = <<>>
    /\ s_log = <<>>

\* lines 302-323: the GET of the next URL returns
ScrapeGet(response) ==
    /\ s_pc = "loop"
    /\ s_todo # <<>>
    /\ LET url == Head(s_todo)
           result == IF InContentType("application/pdf", response)
                     THEN Nothing
                     ELSE IF InContentType("text/html", response)
                     THEN scrape_html(url, response)
                     ELSE Nothing
       IN  /\ s_log' = Append(s_log, [url |-> url, first |-> Some(response),
                                      second |-> Nothing, error |-> None,
                                      result |-> result])
           /\ s_results' = s_results \o result
    /\ IF InContentType("application/pdf", response)
       THEN s_pc' = "pdf" /\ s_todo' = s_todo
       ELSE s_pc' = "loop" /\ s_todo' = Tail(s_todo)
    /\ UNCHANGED notScrape

\* lines 304 and 325-332: the GET of the next URL raises
ScrapeGetFails(error) ==
    /\ s_pc = "loop"
    /\ s_todo # <<>>
    /\ s_log' = Append(s_log, [url |-> Head(s_todo), first |-> Nothing,
                               second |-> Nothing, error |-> error,
                               result |-> Nothing])
    /\ s_todo' = Tail(s_todo)
    /\ UNCHANGED <<s_pc, s_results>>
    /\ UNCHANGED notScrape

\* lines 311-313 with 87-116: the GET of scrape_pdf returns
PdfGet(response) ==
    /\ s_pc = "pdf"
    /\ LET url == Head(s_todo)
           result == scrape_pdf(url, response)
       IN  /\ s_log' = [s_log EXCEPT ![Len(s_log)].second = Some(response),
                                     ![Len(s_log)].result = result]
           /\ s_results' = s_results \o result
    /\ s_pc' = "loop"
    /\ s_todo' = Tail(s_todo)
    /\ UNCHANGED notScrape

\* lines 88 and 123-125: the GET of scrape_pdf raises
PdfGetFails(error) ==
    /\ s_pc = "pdf"
    /\ s_log' = [s_log EXCEPT ![Len(s_log)].error = error]
    /\ s_pc' = "loop"
    /\ s_todo' = Tail(s_todo)
    /\ UNCHANGED s_results
    /\ UNCHANGED notScrape

\* line 334
ScrapeReturn ==
    /\ s_pc = "loop"
    /\ s_todo = <<>>
    /\ s_pc' = "returned"
    /\ UNCHANGED <<s_todo, s_results, s_log>>
    /\ UNCHANGED notScrape

InitScrape ==
    /\ StreamIdle
    /\ SaveIdle
    /\ CrawlIdle
    /\ RetrieveIdle
    /\ RewriteIdle
    /\ LifespanIdle
    /\ StoreIdle
    /\ ScrapeInit
    /\ MoreIdle

NextScrape ==
    \/ \E response \in ScrapeResponses : ScrapeGet(response)
    \/ \E error \in GetErrors : ScrapeGetFails(error)
    \/ \E response \in ScrapeResponses : PdfGet(response)
    \/ \E error \in GetErrors : PdfGetFails(error)
    \/ ScrapeReturn

SpecScrape == InitScrape /\ [][NextScrape]_vars

(***************************************************************************)
(* The HTTP client of URLCrawler.crawl and of scrape (services/scraper.py  *)
(* lines 211-271 and 274-338).  Both take an optional client, make one     *)
(* when they are given none, and close in a finally clause the one they    *)
(* made; scrape hands its client to crawl.  A call is a frame on a stack;  *)
(* an exception or a cancellation that no handler catches runs the finally *)
(* clauses of all frames, the innermost first.                              *)
(***************************************************************************)
\* the GETs one run makes at most
MaxGets == 3

\* lines 217-224 and 280-290: the frame of a call that was given `client`
\* (Nothing for None)
Enter(fn, client) ==
    [fn |-> fn,
     created_client |-> client = Nothing,
     at |-> IF fn = "scrape" THEN "crawl" ELSE "loop"]

\* a finally clause that closes whatever client the call holds
Finally_Always(frame, client) == [client EXCEPT !.closed = @ + 1]

\* lines 269-271 and 336-338: the finally clause of a call
Finally(frame, client) ==
    IF frame.created_client THEN [client EXCEPT !.closed = @ + 1]
    ELSE client

\* the finally clauses of all frames of the stack, the innermost first
RECURSIVE Unwind(_, _)
Unwind(stack, client) ==
    IF stack = <<>> THEN client
    ELSE Unwind(SubSeq(stack, 1, Len(stack) - 1),
                Finally(stack[Len(stack)], client))

\* everything that is not the client's
notClient == <<streamVars, ui_messages, saveVars, crawlVars, retrVars,
               rewriteVars, lifespanVars, storeVars, scrapeVars, fnVars,
               overlapVars>>

ClientInit ==
    /\ cl_stack = <<>>
    /\ cl_client = Nothing
    /\ cl_gets = <<>>
    /\ cl_exit = None

\* crawl or scrape is called, with a client of the caller or with none
Call(fn, supplied) ==
    /\ cl_stack = <<>>
    /\ cl_client = Nothing
    /\ LET given == IF supplied THEN Some([supplied |-> TRUE, closed |-> 0])
                    ELSE Nothing
       IN  /\ cl_stack' = <<Enter(fn, given)>>
           /\ cl_client' = IF supplied THEN given
                           ELSE Some([supplied |-> FALSE, closed |-> 0])
    /\ UNCHANGED <<cl_gets, cl_exit>>
    /\ UNCHANGED notClient

\* scraper.py lines 293-294: scrape calls crawl with its client
ScrapeCallsCrawl ==
    /\ cl_stack # <<>>
    /\ cl_stack[Len(cl_stack)].fn = "scrape"
    /\ cl_stack[Len(cl_stack)].at = "crawl"
    /\ cl_stack' = Append([cl_stack EXCEPT ![Len(cl_stack)].at = "loop"],
                          Enter("crawl", cl_client))
    /\ UNCHANGED <<cl_client, cl_gets, cl_exit>>
    /\ UNCHANGED notClient

\* lines 239 and 304: a GET in the loop of the innermost call; what it raises
\* is caught in the loop (lines 259-261 and 325-332)
ClientGet(ok) ==
    /\ cl_stack # <<>>
    /\ cl_stack[Len(cl_stack)].at = "loop"
    /\ Len(cl_gets) < MaxGets
    /\ cl_gets' = Append(cl_gets, [fn |-> cl_stack[Len(cl_stack)].fn,
                                   ok |-> ok,
                                   closed |-> cl_client[1].closed])
    /\ UNCHANGED <<cl_stack, cl_client, cl_exit>>
    /\ UNCHANGED notClient

\* lines 267-271 and 334-338: the innermost call returns
FrameReturns ==
    /\ cl_stack # <<>>
    /\ cl_stack[Len(cl_stack)].at = "loop"
    /\ cl_client' = Some(Finally(cl_stack[Len(cl_stack)], cl_client[1]))
    /\ cl_stack' = SubSeq(cl_stack, 1, Len(cl_stack) - 1)
    /\ cl_exit' = IF Len(cl_stack) = 1 THEN "returned" ELSE cl_exit
    /\ UNCHANGED cl_gets
    /\ UNCHANGED notClient

\* an exception no handler catches: that of open("urls.txt") in crawl (line
\* 263), that of URLCrawler(base_url) in scrape (line 293)
FrameRaises ==
    /\ cl_stack # <<>>
    /\ cl_client' = Some(Unwind(cl_stack, cl_client[1]))
    /\ cl_stack' = <<>>
    /\ cl_exit' = IF cl_stack[Len(cl_stack)].fn = "crawl" THEN "OSError"
                  ELSE "AttributeError"
    /\ cl_stack[Len(cl_stack)].fn = "scrape"
       => cl_stack[Len(cl_stack)].at = "crawl"
    /\ UNCHANGED cl_gets
    /\ UNCHANGED notClient

\* the task is cancelled while the innermost call waits for a GET:
\* CancelledError is no Exception and passes the handlers of the loops
Cancelled ==
    /\ cl_stack # <<>>
    /\ cl_stack[Len(cl_stack)].at = "loop"
    /\ cl_client' = Some(Unwind(cl_stack, cl_client[1]))
    /\ cl_stack' = <<>>
    /\ cl_exit' = "CancelledError"
    /\ UNCHANGED cl_gets
    /\ UNCHANGED notClient

InitClient ==
    /\ StreamIdle
    /\ SaveIdle
    /\ CrawlIdle
    /\ RetrieveIdle
    /\ RewriteIdle
    /\ LifespanIdle
    /\ StoreIdle
    /\ ScrapeIdle
    /\ ClientInit
    /\ FnIdle
    /\ OverlapIdle

NextClient ==
    \/ \E fn \in {"crawl", "scrape"}, supplied \in BOOLEAN : Call(fn, supplied)
    \/ ScrapeCallsCrawl
    \/ \E ok \in BOOLEAN : ClientGet(ok)
    \/ FrameReturns
    \/ FrameRaises
    \/ Cancelled

SpecClient == InitClient /\ [][NextClient]_vars

(***************************************************************************)
(* build_context_message_from_documents (utils/ai.py lines 18-53), a       *)
(* function of the documents and of max_chars.  A text is the sequence of  *)
(* its characters; the fixed texts of the message (the heading, the        *)
(* divider between parts, a citation) are one element each.                *)
(***************************************************************************)
\* the largest max_chars and the longest list of documents that are tried
MaxChars == 5
MaxDocs == 2

\* the documents retrieval can hand over: page_content empty, of one
\* character, of two between blanks, of four and of six characters, with
\* and without a source in the metadata
ContextDocuments ==
    {[page_content |-> t, metadata |-> m] :
        t \in {<<>>, <<"a">>, <<" ", "a", "b", " ">>,
               <<"a", "b", "c", "d">>, <<"a", "b", "c", "d", "e", "f">>},
        m \in {[source_url |-> None, source |-> None, url |-> None]}}
    \cup {[page_content |-> <<"a", "b", "c">>,
           metadata |-> [source_url |-> None, source |-> "",
                         url |-> "https://a.org/"]]}

RECURSIVE ListsUpTo(_, _)
ListsUpTo(S, n) ==
    IF n = 0 THEN {<<>>}
    ELSE ListsUpTo(S, n - 1)
         \cup {Append(l, x) : l \in {m \in ListsUpTo(S, n - 1) :
                                         Len(m) = n - 1}, x \in S}

\* text[:stop] of Python: a negative stop counts from the end
SliceTo(text, stop) ==
    IF stop >= 0
    THEN SubSeq(text, 1, IF stop < Len(text) THEN stop ELSE Len(text))
    ELSE SubSeq(text, 1, IF Len(text) + stop > 0 THEN Len(text) + stop
                         ELSE 0)

\* lines 27-42: the loop over the documents from document i on; the parts
\* are kept as citation and snippet
RECURSIVE ContextParts(_, _, _, _, _)
ContextParts(docs, max_chars, i, parts, total) ==
    IF i > Len(docs) \/ total >= max_chars THEN parts
    ELSE LET snippet == strip(docs[i].page_content, Whitespace)
             remaining == max_chars - total
             cut == IF Len(snippet) > remaining
                    THEN SliceTo(snippet, remaining - 3) \o <<".", ".", ".">>
                    ELSE snippet
             meta == docs[i].metadata
             source == IF meta.source_url \notin {None, ""}
                       THEN meta.source_url
                       ELSE IF meta.source \notin {None, ""} THEN meta.source
                       ELSE meta.url
         IN  ContextParts(docs, max_chars, i + 1,
                          Append(parts,
                                 [citation |-> IF source \notin {None, ""}
                                               THEN <<"[source:", source,
                                                      "] ">>
                                               ELSE <<>>,
                                  snippet |-> cut]),
                          total + Len(cut))

\* lines 18-53: the message, and the parts its content was built of
build_context_message_from_documents(docs, max_chars) ==
    LET parts == ContextParts(docs, max_chars, 1, <<>>, 0)
        texts == [i \in DOMAIN parts |-> parts[i].citation \o parts[i].snippet]
    IN  [role |-> "system",
         content |-> IF parts # <<>>
                     THEN <<"Contexto: ">> \o JoinWith(texts, "\n\n---\n\n")
                     ELSE <<>>,
         parts |-> parts]

\* everything that is not the function call's
notFn == <<streamVars, ui_messages, saveVars, crawlVars, retrVars,
           rewriteVars, lifespanVars, storeVars, scrapeVars, clientVars,
           overlapVars>>

\* the arguments of a call
ContextInit ==
    /\ f_pc = "input"
    /\ \E docs \in ListsUpTo(ContextDocuments, MaxDocs),
          max_chars \in 1..MaxChars :
           f_in = Some([docs |-> docs, max_chars |-> max_chars])
    /\ f_out = Nothing

\* the call
BuildContext ==
    /\ f_pc = "input"
    /\ f_out' = Some(build_context_message_from_documents(f_in[1].docs,
                                                          f_in[1].max_chars))
    /\ f_pc' = "output"
    /\ UNCHANGED f_in
    /\ UNCHANGED notFn

InitContext ==
    /\ StreamIdle
    /\ SaveIdle
    /\ CrawlIdle
    /\ RetrieveIdle
    /\ RewriteIdle
    /\ LifespanIdle
    /\ StoreIdle
    /\ ScrapeIdle
    /\ ClientIdle
    /\ ContextInit
    /\ OverlapIdle

NextContext == BuildContext

SpecContext == InitContext /\ [][NextContext]_vars

(***************************************************************************)
(* _get_chunks (services/embedding.py lines 17-25): the text splitter the  *)
(* function configures, split_text of RecursiveCharacterTextSplitter with  *)
(* its defaults (the separator stays at the start of the piece after it,   *)
(* chunks are stripped of blanks), on a text of characters.  The sizes are *)
(* scaled: chunk_size is ChunkSize for 1024, chunk_overlap is ChunkOverlap *)
(* for 300.                                                                *)
(***************************************************************************)
\* line 19 (1024) and line 20 (300), scaled
ChunkSize == 3
ChunkOverlap == 1

\* the longest text that is split
MaxText == 6

\* separators without the empty one
separators_NoEmpty == <<<<"\n", "\n">>, <<"\n">>, <<" ">>>>

\* line 21: separators=["\n\n", "\n", " ", ""]
separators == <<<<"\n", "\n">>, <<"\n">>, <<" ">>, <<>>>>

\* the texts of at most n characters over a letter, the blank and the line
\* break
RECURSIVE TextsUpTo(_)
TextsUpTo(n) ==
    IF n = 0 THEN {<<>>}
    ELSE TextsUpTo(n - 1)
         \cup {Append(t, c) : t \in {u \in TextsUpTo(n - 1) : Len(u) = n - 1},
                              c \in {"a", " ", "\n"}}

StartsWith(text, sep) ==
    Len(text) >= Len(sep) /\ SubSeq(text, 1, Len(sep)) = sep

\* sep in text
Occurs(sep, text) ==
    \E i \in 0..Len(text) : StartsWith(SubSeq(text, i + 1, Len(text)), sep)

\* re.split with the separator captured and joined to the piece after it
RECURSIVE Pieces(_, _, _)
Pieces(text, sep, piece) ==
    IF text = <<>> THEN <<piece>>
    ELSE IF StartsWith(text, sep)
    THEN <<piece>> \o Pieces(SubSeq(text, Len(sep) + 1, Len(text)), sep, sep)
    ELSE Pieces(Tail(text), sep, Append(piece, Head(text)))

\* _split_text_with_regex: the pieces that are not empty; list(text) for
\* the empty separator
SplitKeeping(text, sep) ==
    IF sep = <<>> THEN [i \in DOMAIN text |-> <<text[i]>>]
    ELSE SelectSeq(Pieces(text, sep, <<>>), LAMBDA piece : piece # <<>>)

\* "".join(pieces)
RECURSIVE Concat(_)
Concat(pieces) ==
    IF pieces = <<>> THEN <<>> ELSE Head(pieces) \o Concat(Tail(pieces))

RECURSIVE TotalLen(_)
TotalLen(pieces) ==
    IF pieces = <<>> THEN 0 ELSE Len(Head(pieces)) + TotalLen(Tail(pieces))

\* _join_docs: the joined and stripped text as a list of one chunk, no chunk
\* when nothing is left
join_docs(current_doc) ==
    LET text == strip(Concat(current_doc), Whitespace)
    IN  IF text = <<>> THEN <<>> ELSE <<text>>

\* the while loop of _merge_splits: pieces leave the front of the window
\* until it is no longer than the overlap and the next piece fits
RECURSIVE DropFront(_, _)
DropFront(current_doc, len) ==
    LET total == TotalLen(current_doc)
    IN  IF total > ChunkOverlap \/ (total + len > ChunkSize /\ total > 0)
        THEN DropFront(Tail(current_doc), len)
        ELSE current_doc

\* _merge_splits, the joining separator being empty
RECURSIVE merge_splits(_, _, _)
merge_splits(splits, docs, current_doc) ==
    IF splits = <<>> THEN docs \o join_docs(current_doc)
    ELSE LET d == Head(splits)
         IN  IF TotalLen(current_doc) + Len(d) > ChunkSize
                /\ current_doc # <<>>
             THEN merge_splits(Tail(splits), docs \o join_docs(current_doc),
                               Append(DropFront(current_doc, Len(d)), d))
             ELSE merge_splits(Tail(splits), docs, Append(current_doc, d))

\* the index of the first separator that is empty or occurs in the text, 0
\* when there is none
FirstSeparator(text, seps) ==
    IF \E i \in DOMAIN seps : seps[i] = <<>> \/ Occurs(seps[i], text)
    THEN CHOOSE i \in DOMAIN seps :
             /\ seps[i] = <<>> \/ Occurs(seps[i], text)
             /\ \A j \in 1..(i - 1) :
                    seps[j] # <<>> /\ ~Occurs(seps[j], text)
    ELSE 0

\* RecursiveCharacterTextSplitter._split_text, and its loop over the pieces
RECURSIVE split_text(_, _)
RECURSIVE SplitLoop(_, _, _)
split_text(text, seps) ==
    LET i == FirstSeparator(text, seps)
        separator == IF i = 0 THEN seps[Len(seps)] ELSE seps[i]
        new_separators == IF i = 0 \/ seps[i] = <<>> THEN <<>>
                          ELSE SubSeq(seps, i + 1, Len(seps))
    IN  SplitLoop(SplitKeeping(text, separator), <<>>, new_separators)

SplitLoop(splits, good_splits, new_separators) ==
    LET merged == IF good_splits # <<>>
                  THEN merge_splits(good_splits, <<>>, <<>>)
                  ELSE <<>>
    IN  IF splits = <<>> THEN merged
        ELSE IF Len(Head(splits)) < ChunkSize
        THEN SplitLoop(Tail(splits), Append(good_splits, Head(splits)),
                       new_separators)
        ELSE merged
             \o (IF new_separators = <<>> THEN <<Head(splits)>>
                 ELSE split_text(Head(splits), new_separators))
             \o SplitLoop(Tail(splits), <<>>, new_separators)

\* lines 17-25
_get_chunks(text) == split_text(text, separators)

\* the text of a call
ChunksInit ==
    /\ f_pc = "input"
    /\ \E text \in TextsUpTo(MaxText) : f_in = Some([text |-> text])
    /\ f_out = Nothing

\* the call
GetChunks ==
    /\ f_pc = "input"
    /\ f_out' = Some(_get_chunks(f_in[1].text))
    /\ f_pc' = "output"
    /\ UNCHANGED f_in
    /\ UNCHANGED notFn

InitChunks ==
    /\ StreamIdle
    /\ SaveIdle
    /\ CrawlIdle
    /\ RetrieveIdle
    /\ RewriteIdle
    /\ LifespanIdle
    /\ StoreIdle
    /\ ScrapeIdle
    /\ ClientIdle
    /\ ChunksInit
    /\ OverlapIdle

NextChunks == GetChunks

SpecChunks == InitChunks /\ [][NextChunks]_vars

(***************************************************************************)
(* Persisted responses for one chat that overlap (routers/chat.py lines    *)
(* 55-58 and 112-132, utils/ai.py lines 464-486, repositories/ai.py lines  *)
(* 61-94).  Every request loads the messages of the chat when it starts;   *)
(* when its stream has ended, its save task runs save_chat in a session of *)
(* its own.  save_chat_task is a plain function, so the tasks of two       *)
(* requests run in threads of their own and the statements of their        *)
(* transactions interleave: the DELETE of lines 67-68 runs at once, the    *)
(* rows that were added are written and made visible by the commit of line *)
(* 94.  A DELETE removes the rows that are committed when it runs, as in   *)
(* the database of the default DATABASE_URL (config/settings.py line 22);  *)
(* a database that lets one writer in at a time produces the runs in which *)
(* a task deletes and commits without the other in between, which are      *)
(* runs of the model too.                                                  *)
(***************************************************************************)
\* the requests for the chat
MaxRequests == 2

Requests == 1..MaxRequests

\* routers/chat.py lines 118-132: the message of a request
UserMessageOf(r) ==
    [id |-> <<"msg-u", r>>, role |-> "user",
     parts |-> <<[type |-> "text", text |-> "hi"]>>]

\* utils/ai.py lines 464-469: the answer to a request
AssistantMessageOf(r, delta) ==
    [id |-> <<"msg-a", r>>, role |-> "assistant",
     parts |-> <<[type |-> "text", text |-> delta]>>]

\* repositories/ai.py lines 35-48: the messages of the committed rows
Transcript(rows) == [i \in DOMAIN rows |-> rows[i].data]

\* everything that is not the overlapping saves'
notOverlap == <<streamVars, ui_messages, saveVars, crawlVars, retrVars,
                rewriteVars, lifespanVars, storeVars, scrapeVars, clientVars,
                fnVars>>

\* the chat is new, or holds an earlier exchange
OverlapInit ==
    /\ tx = [r \in Requests |->
                 [at |-> "new", previous_messages |-> <<>>,
                  final_messages |-> <<>>, deleted |-> {}]]
    /\ db_rows \in {<<>>,
                    [i \in DOMAIN PriorMessages |->
                         [by |-> 0, data |-> PriorMessages[i]]]}

\* routers/chat.py lines 55-58 and 112-132: the request loads the messages
\* of the chat and adds its own
RequestStarts(r) ==
    /\ tx[r].at = "new"
    /\ tx' = [tx EXCEPT ![r].at = "streaming",
                        ![r].previous_messages = Transcript(db_rows)]
    /\ UNCHANGED db_rows
    /\ UNCHANGED notOverlap

\* utils/ai.py lines 461-486: the sentinel of the stream; the task is added
\* with the messages of the request and the answer
StreamCompletes(r, delta) ==
    /\ tx[r].at = "streaming"
    /\ tx' = [tx EXCEPT ![r].at = "task",
                        ![r].final_messages =
                            tx[r].previous_messages
                            \o <<UserMessageOf(r),
                                 AssistantMessageOf(r, delta)>>]
    /\ UNCHANGED db_rows
    /\ UNCHANGED notOverlap

\* repositories/ai.py lines 61-68: the task finds the chat and deletes the
\* rows of the chat that are there
TaskDeletes(r) ==
    /\ tx[r].at = "task"
    /\ tx' = [tx EXCEPT ![r].at = "deleted",
                        ![r].deleted = {db_rows[i] : i \in DOMAIN db_rows}]
    /\ UNCHANGED db_rows
    /\ UNCHANGED notOverlap

\* repositories/ai.py lines 71-94: the rows of the messages are added and
\* the transaction commits
TaskCommits(r) ==
    /\ tx[r].at = "deleted"
    /\ db_rows' =
           SelectSeq(db_rows, LAMBDA row : row \notin tx[r].deleted)
           \o [i \in DOMAIN tx[r].final_messages |->
                   [by |-> r, data |-> tx[r].final_messages[i]]]
    /\ tx' = [tx EXCEPT ![r].at = "saved"]
    /\ UNCHANGED notOverlap

InitOverlap ==
    /\ StreamIdle
    /\ SaveIdle
    /\ CrawlIdle
    /\ RetrieveIdle
    /\ RewriteIdle
    /\ LifespanIdle
    /\ StoreIdle
    /\ ScrapeIdle
    /\ ClientIdle
    /\ FnIdle
    /\ OverlapInit

NextOverlap ==
    \/ \E r \in Requests : RequestStarts(r)
    \/ \E r \in Requests, delta \in Contents : StreamCompletes(r, delta)
    \/ \E r \in Requests : TaskDeletes(r)
    \/ \E r \in Requests : TaskCommits(r)

SpecOverlap == InitOverlap /\ [][NextOverlap]_vars

(***************************************************************************)
(* Properties.                                                             *)
(***************************************************************************)
\* the type tag of a frame; the sentinel has none and is its own kind
Type(frame) == IF frame.sse = "[DONE]" THEN "[DONE]" ELSE frame.data.type

\* the whole response produced so far: the frames yielded and the frames
\* the generator yields before its next read
Response == out \o pending

Positions(seq, type) == {k \in 1..Len(seq) : Type(seq[k]) = type}

\* the response is complete and the consumer has read all of it
Consumed == pc = "returned"

\* C1: every response begins with the start frame, the sentinel is never
\* followed by another frame (so there is at most one), and a response the
\* consumer reads to the end ends with the sentinel, whatever the stream
\* delivers and wherever the transport, a tool or the encoding of a frame
\* fails.
C1_StartFirstSentinelLast ==
    /\ Response # <<>> => Positions(Response, "start") = {1}
    /\ \A k \in Positions(Response, "[DONE]") : k = Len(Response)
    /\ Consumed => out # <<>> /\ Type(out[Len(out)]) = "[DONE]"

C1_Witness ==
    /\ Consumed
    /\ raised = "stream"
    /\ Positions(out, "text-delta") # {}
    /\ Type(out[Len(out)]) = "[DONE]"

\* C2: when an exception reaches the handler of stream_text (raised by the
\* creation of the stream, by its iteration or by the processing after it),
\* the response holds exactly one error frame, the sentinel comes right
\* after it, and the response holds no finish frame.
C2_ErrorThenSentinel ==
    raised # "none" /\ ~cancelled =>
        /\ Positions(Response, "finish") = {}
        /\ Cardinality(Positions(Response, "error")) = 1
        /\ \A k \in Positions(Response, "error") :
               /\ k + 1 = Len(Response)
               /\ Type(Response[k + 1]) = "[DONE]"

C2_Witness ==
    /\ Consumed
    /\ raised = "serialise"
    /\ Positions(out, "error") # {}
    /\ Positions(out, "tool-input-available") # {}

\* C3: for every tool call id, the tool-input-start frame that carries the
\* id comes strictly before every tool-input-delta and tool-input-available
\* frame that carries the same id.
C3_StartPrecedesInput ==
    \A k \in Positions(out, "tool-input-delta")
             \cup Positions(out, "tool-input-available") :
        \E j \in Positions(out, "tool-input-start") :
            /\ j < k
            /\ out[j].data.toolCallId = out[k].data.toolCallId

\* the stream delivered only content fragments, at least one, and then the
\* finish reason "stop", and ended
OnlyTextThenStop ==
    /\ Len(inLog) >= 2
    /\ inLog[Len(inLog)] = FinishChunk(Stop)
    /\ \A k \in 1..(Len(inLog) - 1) :
           \E c \in Contents : inLog[k] = TextChunk(c)
    /\ raised = "none"

\* what a frame shows of itself: its type, and the delta of a text-delta
Label(frame) ==
    IF Type(frame) = "text-delta" THEN <<"text-delta", frame.data.delta>>
    ELSE <<Type(frame)>>

\* the content fragment of a text chunk
ContentOf(chunk) == chunk.choices[1].delta[1].content

\* C4: a stream of content fragments f1..fn (n >= 1) followed by the finish
\* reason "stop" yields exactly start, text-start, text-delta(f1) ...
\* text-delta(fn), text-end, finish, sentinel.
C4_TextOnlyScenario ==
    Consumed /\ OnlyTextThenStop =>
        [k \in 1..Len(out) |-> Label(out[k])] =
            <<<<"start">>, <<"text-start">>>>
            \o [k \in 1..(Len(inLog) - 1) |->
                    <<"text-delta", ContentOf(inLog[k])>>]
            \o <<<<"text-end">>, <<"finish">>, <<"[DONE]">>>>

C4_Witness ==
    /\ Consumed
    /\ OnlyTextThenStop
    /\ Len(inLog) = 3
    /\ ContentOf(inLog[1]) # ContentOf(inLog[2])
    /\ Len(out) = 7

Range(seq) == {seq[k] : k \in 1..Len(seq)}

\* the loop of line 321 has visited call index i
Visited(i) ==
    /\ finish_reason = Some(ToolCalls)
    /\ pc \in {"calls", "dispatch", "done", "returned"}
    /\ raised \notin {"create", "stream"}
    /\ i \in DOMAIN tool_calls_state
    /\ i \notin Range(todo)

\* the frames of the response built from the state of call index i
CallPositions(seq, i, types) ==
    {k \in 1..Len(seq) : Type(seq[k]) \in types /\ seq[k].call = i}

ToolTypes ==
    {"tool-input-start", "tool-input-delta", "tool-input-error",
     "tool-input-available", "tool-output-available", "tool-output-error"}

\* what the response holds for a call whose arguments failed to parse
InputErrorHandled(i) ==
    /\ Cardinality(CallPositions(Response, i, {"tool-input-error"})) = 1
    /\ \A k \in CallPositions(Response, i, {"tool-input-error"}) :
           /\ \E j \in CallPositions(Response, i, {"tool-input-start"}) :
                  j < k
           /\ k = Len(Response) => pc = "calls"
           /\ k < Len(Response) =>
                  \/ Type(Response[k + 1]) \in {"text-end", "finish"}
                  \/ /\ Type(Response[k + 1]) \in ToolTypes
                     /\ Response[k + 1].call > i
    /\ i \notin Range(invoked)
    /\ CallPositions(Response, i, {"tool-input-available",
                                   "tool-output-available",
                                   "tool-output-error"}) = {}

C6_OneOutputPerInput ==
    /\ \A k \in Positions(out, "tool-input-available") :
           /\ k < Len(out) =>
                  /\ Type(out[k + 1]) \in {"tool-output-available",
                                           "tool-output-error"}
                  /\ out[k + 1].call = out[k].call
           /\ out[k].data.toolName \notin available_tools =>
                  out[k].call \notin Range(invoked)
    /\ \A k \in Positions(out, "tool-output-available")
                \cup Positions(out, "tool-output-error") :
           /\ k > 1
           /\ Type(out[k - 1]) = "tool-input-available"
           /\ out[k - 1].call = out[k].call
    /\ Positions(out, "tool-input-available") # {} =>
           Positions(out, "error") = {}

\* the finish reasons the stream reported, in order
RECURSIVE Reported(_)
Reported(chunks) ==
    IF chunks = <<>> THEN <<>>
    ELSE LET cs == Head(chunks).choices
             rs == SelectSeq([k \in 1..Len(cs) |-> cs[k].finish_reason],
                             LAMBDA r : r # Nothing)
         IN  [k \in 1..Len(rs) |-> rs[k][1]] \o Reported(Tail(chunks))

LastReported == Reported(inLog)[Len(Reported(inLog))]

\* a finish reason with every underscore turned into a hyphen
Hyphenated(r) == [k \in 1..Len(r) |-> IF r[k] = "_" THEN "-" ELSE r[k]]

\* a response read to the end that does not end in error holds exactly one
\* finish frame, right before the sentinel
OneFinishBeforeSentinel ==
    /\ Positions(out, "finish") = {Len(out) - 1}
    /\ Type(out[Len(out)]) = "[DONE]"

EndsWithoutError == Consumed /\ Type(out[Len(out) - 1]) # "error"

\* C7 as stated: a response that does not end in error holds exactly one
\* finish frame, right before the sentinel, and the frame carries the last
\* finish reason the stream reported, if it reported one.
C7_Original ==
    EndsWithoutError =>
        /\ OneFinishBeforeSentinel
        /\ Reported(inLog) # <<>> =>
               out[Len(out) - 1].data.messageMetadata.finishReason
                   = LastReported

\* C7 as amended: the frame carries the last finish reason reported with
\* its underscores replaced by hyphens ("tool_calls" is sent as
\* "tool-calls").
C7_FinishCarriesReason ==
    EndsWithoutError =>
        /\ OneFinishBeforeSentinel
        /\ Reported(inLog) # <<>> =>
               out[Len(out) - 1].data.messageMetadata.finishReason
                   = Hyphenated(LastReported)

C7_Witness ==
    /\ EndsWithoutError
    /\ Reported(inLog) # <<>>
    /\ LastReported = ToolCalls
    /\ Positions(out, "tool-output-available") # {}

\* after the close nothing is produced: no frame, no call of a tool, no save
NothingAfterCancel ==
    [][cancelled' => UNCHANGED <<out, wout, invoked, background_tasks>>]_vars

\* C8 as stated: after the consumer closes the generator at a yield no
\* further frame is produced and no tool is called, and the only side
\* effects that remain are the calls of tools completed before the close.
C8_Original ==
    /\ NothingAfterCancel
    /\ [](cancelled => background_tasks = <<>>)

\* C8 as amended: ... and the only side effects that remain are the calls
\* of tools completed before the close and, when the close comes at the
\* yield of the sentinel, the one save task scheduled before that yield.
C8_CancelStopsProduction ==
    /\ NothingAfterCancel
    /\ [](cancelled /\ background_tasks # <<>> =>
              /\ Len(background_tasks) = 1
              /\ Type(wout[Len(wout)]) = "[DONE]")

C8_Witness ==
    /\ cancelled
    /\ invoked # <<>>
    /\ Positions(out, "tool-input-available") # {}
    /\ Positions(out, "[DONE]") = {}
    /\ background_tasks = <<>>

\* C9: the frames stream_text_with_persistence yields are the frames
\* stream_text yields, one for one and in the same order.
C9_PassThrough == wout = out

C9_Witness ==
    /\ Consumed
    /\ Len(wout) >= 6
    /\ Positions(wout, "text-delta") # {}
    /\ Type(wout[Len(wout)]) = "[DONE]"

\* C10: a save task is added exactly when the sentinel is observed, also
\* when the response ended with error, so a response has at most one save
\* task and one that does not reach the sentinel has none.
C10_OneSavePerSentinel ==
    /\ Len(background_tasks) = Cardinality(Positions(out, "[DONE]"))
    /\ Len(background_tasks) <= 1

C10_Witness ==
    /\ Consumed
    /\ raised = "stream"
    /\ Len(background_tasks) = 1
    /\ Positions(out, "error") # {}

\* the messageId of the start frame of the response
StartId == out[CHOOSE i \in Positions(out, "start") : TRUE].data.messageId

\* the delta values of the text-delta frames of the response, in the order
\* of emission
TextDeltas ==
    LET frames == SelectSeq(out, LAMBDA frame : Type(frame) = "text-delta")
    IN  [i \in 1..Len(frames) |-> frames[i].data.delta]

\* C11: the message list handed to the scheduled save is the input
\* ui_messages list, unchanged and in order, followed by exactly one
\* assistant message whose text is the concatenation, in emission order, of
\* the deltas of all text-delta frames of the response and whose id is the
\* messageId of the start frame; the caller's list is not mutated.
C11_SavedMessages ==
    /\ [](\A i \in DOMAIN background_tasks :
              background_tasks[i].final_messages
                  = ui_messages
                    \o <<[id |-> StartId, role |-> "assistant",
                          parts |-> <<[type |-> "text",
                                       text |-> Join(TextDeltas)]>>]>>)
    /\ [][ui_messages' = ui_messages]_vars

C11_Witness ==
    /\ background_tasks # <<>>
    /\ Len(ui_messages) = 3
    /\ Len(TextDeltas) = 2
    /\ TextDeltas[1] # TextDeltas[2]
    /\ Positions(out, "finish") # {}

\* a step of the save task
SaveStep == save_state # "none" /\ save_state' # save_state

\* C12: the save is decoupled from delivery.  The wrapper can yield the
\* sentinel whatever the task is doing (not begun, running, saved, failed);
\* a failure of the save, also save_chat raising for a chat that is missing
\* or not the user's, is logged inside the task and never leaves it; and no
\* step of the task changes the response or its delivery.
C12_SaveDecoupled ==
    /\ [](Holding /\ ~cancelled => ENABLED YieldSentinel)
    /\ [](~propagated)
    /\ [](save_state = "failed" => Len(logged) = 1)
    /\ [](save_state = "running" /\ chat # Some("user-1")
              => \A outcome \in SaveOutcomes :
                     ENABLED (SaveEnds(outcome) /\ save_state' = "failed"))
    /\ [][SaveStep => UNCHANGED <<streamVars, ui_messages>>]_vars

C12_Witness ==
    /\ save_state = "failed"
    /\ chat = Nothing
    /\ logged = <<"ValueError">>
    /\ Consumed
    /\ Type(wout[Len(wout)]) = "[DONE]"
    /\ Positions(wout, "text-delta") # {}

\* C13: at every point of a crawl and in its result at most max_urls URLs
\* are discovered, and no discovered URL was taken from the queue at a depth
\* above max_depth.
C13_Bounded ==
    /\ Len(discovered_urls) <= max_urls
    /\ \A i \in DOMAIN dequeued_at : dequeued_at[i] <= max_depth

\* a URL the loop skipped for its depth alone
SkippedForDepth ==
    \E i \in DOMAIN c_log :
        /\ c_log[i].op = "skip"
        /\ c_log[i].depth > max_depth
        /\ c_log[i].url \notin visited

C13_Witness ==
    /\ c_pc = "returned"
    /\ max_urls >= 2
    /\ SkippedForDepth
    /\ \E i \in DOMAIN dequeued_at : dequeued_at[i] = max_depth /\ i > 1

\* C14: the list a crawl returns holds no URL twice, and when the crawl
\* ends the visited set is the set of the discovered URLs.
C14_NoDuplicates ==
    c_pc = "returned" =>
        /\ \A i, j \in DOMAIN discovered_urls :
               discovered_urls[i] = discovered_urls[j] => i = j
        /\ visited = Range(discovered_urls)

C14_Witness ==
    /\ c_pc = "returned"
    /\ Len(discovered_urls) >= 3
    /\ \E i \in DOMAIN c_log : c_log[i].op = "skip" /\ c_log[i].url = DocUrl
                               /\ c_log[i].depth <= max_depth

\* the link filter, asked of a URL
Accepted(u) ==
    /\ follow_external \/ netloc(u) = domain
    /\ ~\E i \in DOMAIN exclude_patterns : search(exclude_patterns[i], u)
    /\ include_patterns # <<>>
           => \E i \in DOMAIN include_patterns : search(include_patterns[i], u)

\* C15: with follow_external false no discovered URL has a domain other
\* than the seed's, and every discovered URL other than the seed is accepted
\* by the link filter: same domain unless follow_external, matching no
\* exclude pattern, matching an include pattern when there are any.
C15_FilterAccepted ==
    /\ ~follow_external =>
           \A i \in DOMAIN discovered_urls :
               netloc(discovered_urls[i]) = domain
    /\ \A i \in DOMAIN discovered_urls :
           i > 1 => Accepted(discovered_urls[i])

\* C16: a crawl ends, and when it has ended the queue is empty or exactly
\* max_urls URLs are discovered.
C16_Terminates ==
    /\ <>(c_pc = "returned")
    /\ [](c_pc = "returned" =>
              to_visit = <<>> \/ Len(discovered_urls) = max_urls)

C16_Witness ==
    /\ c_pc = "returned"
    /\ to_visit # <<>>
    /\ Len(discovered_urls) = max_urls
    /\ max_urls >= 2
    /\ \E i \in DOMAIN c_log :
           /\ c_log[i].op = "get"
           /\ c_log[i].url = base_url
           /\ c_log[i].response # Nothing
           /\ \E j \in DOMAIN c_log[i].response[1].anchors :
                  c_log[i].response[1].anchors[j] = base_url

\* the GET the step has just made failed: client.get raised, or the status
\* of the response is an error status
GetFailed ==
    /\ Len(c_log') = Len(c_log) + 1
    /\ LET last == c_log'[Len(c_log')]
       IN  /\ last.op = "get"
           /\ \/ last.error # None
              \/ /\ last.response # Nothing
                 /\ last.response[1].status_code >= 400

\* C17: a GET that fails (network error, timeout, HTTP error status) does
\* not end the crawl: nothing is raised out of the loop, the URL adds no
\* link to the queue, and the queue, the visited set and the discovered
\* list are what they were, so the URLs still queued are handled as they
\* would be after a GET that brought no link.
C17_FetchErrorIsLocal ==
    [][GetFailed =>
           /\ c_pc' = "loop"
           /\ UNCHANGED <<to_visit, visited, discovered_urls, dequeued_at,
                          crawlParams>>]_vars

C17_Witness ==
    /\ c_pc = "returned"
    /\ Len(discovered_urls) >= 3
    /\ c_log[1].op = "get"
    /\ c_log[1].response # Nothing
    /\ \E i \in DOMAIN c_log :
           /\ c_log[i].op = "get"
           /\ c_log[i].response # Nothing
           /\ c_log[i].response[1].status_code >= 400
    /\ \E i \in DOMAIN c_log :
           /\ c_log[i].op = "get"
           /\ c_log[i].error = "ReadTimeout"
           /\ \E j \in DOMAIN c_log : j > i /\ c_log[j].op = "get"

\* the pairs <<document, score>> the searches have returned
Observed == UNION {Range(searched[i].results) : i \in DOMAIN searched}

\* the scores observed for a key
ScoresFor(key) == {hit[2] : hit \in {h \in Observed : doc_key(h[1]) = key}}

\* the pairs <<key, score>> retained after searching `outcomes`
Retained(outcomes) ==
    LET D == SearchAll([all_docs |-> <<>>, doc_scores |-> <<>>], outcomes)
    IN  {<<D.doc_scores[i].key, D.doc_scores[i].value>> :
             i \in DOMAIN D.doc_scores}

\* C18: for every key that occurs in the results, in one search or in
\* several, the retained document is one that was returned with that key
\* and with the least score observed for the key, and the retained scores
\* are the same in whatever order the queries are searched.
C18_KeepsMinimum ==
    /\ \A hit \in Observed :
           LET key == doc_key(hit[1])
           IN  /\ Has(doc_scores, key) /\ Has(all_docs, key)
               /\ \A score \in ScoresFor(key) :
                      Lookup(doc_scores, key) <= score
               /\ <<Lookup(all_docs, key), Lookup(doc_scores, key)>>
                      \in Observed
               /\ doc_key(Lookup(all_docs, key)) = key
    /\ \A order \in Permutations(DOMAIN searched) :
           Retained([i \in DOMAIN searched |-> searched[order[i]]])
               = Retained(searched)

C18_Witness ==
    /\ r_pc = "returned"
    /\ Len(searched) = 2
    /\ Len(searched[1].results) = 2
    /\ <<"edital-1", 2>> \in Range(searched[1].results)
    /\ <<"edital-2", 3>> \in Range(searched[1].results)
    /\ <<"edital-2", 1>> \in Range(searched[2].results)
    /\ Lookup(all_docs, doc_key("edital-1")) = "edital-2"

\* the best score of a document: the score retained for its key
BestScore(doc) == Lookup(doc_scores, doc_key(doc))

\* C19: retrieve_docs returns at most k documents, by non-decreasing best
\* score, no two with the same key, and every retained document it does not
\* return has a best score at least that of every document it returns.
C19_TopK ==
    r_pc = "returned" =>
        /\ Len(r_result) <= r_k
        /\ \A i \in DOMAIN r_result : Has(all_docs, doc_key(r_result[i]))
                /\ Lookup(all_docs, doc_key(r_result[i])) = r_result[i]
        /\ \A i, j \in DOMAIN r_result :
               /\ i < j => BestScore(r_result[i]) <= BestScore(r_result[j])
               /\ doc_key(r_result[i]) = doc_key(r_result[j]) => i = j
        /\ \A n \in DOMAIN all_docs :
               all_docs[n].value \notin Range(r_result) =>
                   \A i \in DOMAIN r_result :
                       BestScore(r_result[i]) <= doc_scores[n].value
        /\ Len(r_result) = Min(r_k, Len(all_docs))

C19_Witness ==
    /\ r_pc = "returned"
    /\ Len(all_docs) = 3
    /\ Len(r_result) = 2
    /\ r_k = 2
    /\ doc_scores[1].value > doc_scores[3].value
    /\ BestScore(r_result[1]) < BestScore(r_result[2])

\* the outcomes with every failed search replaced by a search without
\* results
AsEmpty(outcomes) ==
    [i \in DOMAIN outcomes |-> [raises |-> FALSE,
                                results |-> outcomes[i].results]]

\* C20: a search that raises does not end retrieve_docs, which returns what
\* it returns when that search finds nothing: the other searches count as
\* before, and when every search raises the result is the empty list.
C20_FailedSearchSkipped ==
    r_pc = "returned" =>
        /\ r_result
               = TopK(SearchAll([all_docs |-> <<>>, doc_scores |-> <<>>],
                                AsEmpty(searched)), r_k)
        /\ (\A i \in DOMAIN searched : searched[i].raises) => r_result = <<>>
        /\ \A hit \in Observed : Has(all_docs, doc_key(hit[1]))

C20_Witness ==
    /\ r_pc = "returned"
    /\ Len(searched) = 2
    /\ ~searched[1].raises
    /\ searched[2].raises
    /\ Len(r_result) = 2

\* the texts a generation call has offered: the first lines of the
\* completion of expand_query that are not blank, as many as were asked
\* for, and the completion of the other two without the blanks and quotes
\* around it
Offered(call) ==
    IF call.raises \/ call.content = Nothing THEN {}
    ELSE IF call.fn = "expand_query"
    THEN LET lines == split(call.content[1], "\n")
             texts == SelectSeq([i \in DOMAIN lines |->
                                     strip(lines[i], Whitespace)],
                                LAMBDA line : line # <<>>)
         IN  {texts[i] : i \in 1..Min(NumVariations(rw_strategy), Len(texts))}
    ELSE {strip(strip(call.content[1], Whitespace), {"\""})}

\* a text without its case and the blanks around it
Key(text) == strip(lower(text), Whitespace)

\* C21: whatever the query, the strategy and the generation calls, rewrite
\* returns at least one query, the first one is the query as it was given,
\* and no two of them are equal when case is ignored.
C21_OriginalFirstNoDuplicates ==
    rw_pc = "returned" =>
        /\ Len(unique_queries) >= 1
        /\ unique_queries[1] = rw_query
        /\ \A i, j \in DOMAIN unique_queries :
               lower(unique_queries[i]) = lower(unique_queries[j]) => i = j

\* three queries are returned, and a text that a call offered is not among
\* them because it is the query in other case
C21_Witness ==
    /\ rw_pc = "returned"
    /\ Len(unique_queries) >= 3
    /\ \E c \in DOMAIN rw_calls :
           \E v \in Offered(rw_calls[c]) :
               /\ v # rw_query
               /\ lower(v) = lower(rw_query)
               /\ \A i \in DOMAIN unique_queries : unique_queries[i] # v

\* C22: rewrite raises nothing; when every generation call has failed it
\* returns the query alone; and every text offered by a call that succeeded
\* is returned, after the query (as itself, or as the query or the text
\* returned earlier that it repeats).
C22_DegradesToOriginal ==
    /\ rw_pc \in {"called", "calls", "returned"}
    /\ rw_pc = "returned" =>
           /\ (\A c \in DOMAIN rw_calls : rw_calls[c].raises)
                  => unique_queries = <<rw_query>>
           /\ unique_queries[1] = rw_query
           /\ \A c \in DOMAIN rw_calls :
                  \A v \in Offered(rw_calls[c]) :
                      Key(v) # <<>> =>
                          \E i \in DOMAIN unique_queries :
                              Key(unique_queries[i]) = Key(v)

\* of three calls the first has failed, and the texts of the other two are
\* returned after the query
C22_Witness ==
    /\ rw_pc = "returned"
    /\ Len(rw_calls) = 3
    /\ rw_calls[1].raises
    /\ ~rw_calls[2].raises
    /\ ~rw_calls[3].raises
    /\ Len(unique_queries) = 3

\* C23: when ingestion is switched on and the environment names at least
\* one URL, a startup calls create_vector_store if and only if the index
\* directory is not populated or the force flag is set.
C23_IngestsWhenNeeded ==
    /\ l_last # Nothing
    /\ settings.INGEST_ON_STARTUP
    /\ environ # Nothing
    /\ UrlList(environ[1]) # <<>>
    => (l_last[1].invoked
            <=> (~l_last[1].populated \/ settings.INGEST_FORCE))

\* the call the step has made names a chat that does not exist or that
\* belongs to another user
NotOwned ==
    /\ last_op' # Nothing
    /\ last_op'[1].op \in {"load_chat", "save_chat", "delete_chat"}
    /\ ChatRow(last_op'[1].chat_id) # Some(last_op'[1].user_id)

\* C24: load_chat, save_chat and delete_chat called for a chat that does
\* not exist or belongs to another user raise ValueError, return nothing
\* and leave the tables as they were; so no call changes or returns the
\* messages of a chat that is not the caller's.
C24_OwnerOnly ==
    [][/\ NotOwned =>
              /\ last_op'[1].raises = "ValueError"
              /\ last_op'[1].returned = <<>>
              /\ UNCHANGED <<chat_table, message_table>>
       /\ last_op' # Nothing =>
              \A c \in ChatIds :
                  chat_table[c] # Nothing
                  /\ chat_table[c] # Some(last_op'[1].user_id)
                  => /\ chat_table'[c] = chat_table[c]
                     /\ message_table'[c] = message_table[c]]_vars

\* a user has asked to delete a chat of another user that holds messages,
\* and the chat still holds them
C24_Witness ==
    /\ last_op # Nothing
    /\ last_op[1].op = "delete_chat"
    /\ last_op[1].raises = "ValueError"
    /\ last_op[1].chat_id \in ChatIds
    /\ chat_table[last_op[1].chat_id] # Nothing
    /\ chat_table[last_op[1].chat_id] # Some(last_op[1].user_id)
    /\ Len(message_table[last_op[1].chat_id]) = 2

\* C31: for a query that is empty, or shorter than 3 characters once
\* stripped, rewrite returns the list of that query alone under every
\* strategy and makes no generation call.
C31_ShortQueryBypasses ==
    /\ rw_pc = "returned"
    /\ \/ rw_query = <<>>
       \/ Len(strip(rw_query, Whitespace)) < 3
    => /\ unique_queries = <<rw_query>>
       /\ rw_calls = <<>>

C31_Witness ==
    /\ rw_pc = "returned"
    /\ rw_query = <<" ", "a", "b", " ">>
    /\ rw_strategy = "expansion"
    /\ unique_queries = <<rw_query>>
    /\ rw_calls = <<>>

\* the response the extraction of a URL worked on: that of scrape on the
\* HTML path, that of scrape_pdf on the PDF path
Extracted(entry) ==
    IF entry.first # Nothing /\ InContentType("application/pdf", entry.first[1])
    THEN entry.second
    ELSE entry.first

\* C25: a URL whose response has a status of 400 or more gives no
\* ScrapeResult, on the HTML path and on the PDF path.
C25_ErrorStatusNoResult ==
    \A i \in DOMAIN s_log :
        /\ Extracted(s_log[i]) # Nothing
        /\ Extracted(s_log[i])[1].status_code >= 400
        => s_log[i].result = Nothing

\* the document of the response is one no text can be extracted from: an
\* HTML document whose elements, those that are removed aside, hold blanks
\* only, or a readable PDF with pages none of which has text
WithoutText(response) ==
    \/ /\ InContentType("text/html", response)
       /\ \A i \in DOMAIN response.body :
              \/ response.body[i].tag \in TagsRemoved
              \/ \A k \in DOMAIN response.body[i].text :
                     response.body[i].text[k] \in Whitespace
    \/ /\ InContentType("application/pdf", response)
       /\ response.body.readable
       /\ response.body.pages # <<>>
       /\ \A i \in DOMAIN response.body.pages :
              /\ ~response.body.pages[i].raises
              /\ \A k \in DOMAIN response.body.pages[i].text :
                     response.body.pages[i].text[k] \in Whitespace

\* C26: a document that was fetched without an error status, is HTML or
\* PDF (the same to scrape and to the extractor), and has no text that can
\* be extracted gives a ScrapeResult whose text is empty.
C26_EmptyTextIsAResult ==
    \A i \in DOMAIN s_log :
        /\ Extracted(s_log[i]) # Nothing
        /\ s_log[i].error = None
        /\ Extracted(s_log[i])[1].status_code < 400
        /\ InContentType("application/pdf", Extracted(s_log[i])[1])
               = InContentType("application/pdf", s_log[i].first[1])
        /\ WithoutText(Extracted(s_log[i])[1])
        => /\ s_log[i].result # Nothing
           /\ s_log[i].result[1].text = <<>>

\* nothing failed for the URL of the entry: every GET returned, the status
\* of the response that was extracted is below 400, and the document is
\* HTML or a PDF that can be read and has a page whose text can be taken
DidNotFail(entry) ==
    /\ entry.error = None
    /\ Extracted(entry) # Nothing
    /\ Extracted(entry)[1].status_code < 400
    /\ \/ /\ InContentType("text/html", entry.first[1])
          /\ ~InContentType("application/pdf", entry.first[1])
       \/ /\ InContentType("application/pdf", entry.first[1])
          /\ InContentType("application/pdf", Extracted(entry)[1])
          /\ Extracted(entry)[1].body.readable
          /\ \E i \in DOMAIN Extracted(entry)[1].body.pages :
                 ~Extracted(entry)[1].body.pages[i].raises

\* the URLs of the results
ResultUrls == [k \in DOMAIN s_results |-> s_results[k].url]

\* C32: scrape returns after it handled every crawled URL; its results are
\* in crawl order, at most one for a URL, and every URL for which nothing
\* failed has its result among them.
C32_FailuresAreLocal ==
    s_pc = "returned" =>
        LET urls == [i \in DOMAIN s_log |-> s_log[i].url]
        IN  /\ urls \in CrawledLists
            /\ ResultUrls = SelectSeq(urls,
                   LAMBDA u : \E k \in DOMAIN s_results : s_results[k].url = u)
            /\ \A i \in DOMAIN s_log :
                   DidNotFail(s_log[i])
                   => \E k \in DOMAIN s_results : s_results[k].url = s_log[i].url

\* C33: when crawl or scrape has ended, by a return, an exception or a
\* cancellation, the client it made itself is closed; a client of the
\* caller is never closed, and no GET goes out on a closed client.
C33_OwnClientClosed ==
    /\ cl_client # Nothing /\ cl_client[1].supplied
       => cl_client[1].closed = 0
    /\ cl_exit # None /\ ~cl_client[1].supplied
       => cl_client[1].closed >= 1
    /\ \A i \in DOMAIN cl_gets : cl_gets[i].closed = 0

C33_Witness ==
    /\ cl_exit = "CancelledError"
    /\ ~cl_client[1].supplied
    /\ cl_client[1].closed = 1
    /\ \E i \in DOMAIN cl_gets : cl_gets[i].fn = "crawl"
    /\ \E i \in DOMAIN cl_gets : cl_gets[i].fn = "scrape"

RECURSIVE SnippetChars(_)
SnippetChars(parts) ==
    IF parts = <<>> THEN 0
    ELSE Len(parts[1].snippet) + SnippetChars(Tail(parts))

\* C34: the snippets of the context message have at most max_chars
\* characters together, and without documents the content is empty.
C34_ContextWithinBudget ==
    f_pc = "output" =>
        /\ SnippetChars(f_out[1].parts) <= f_in[1].max_chars
        /\ f_in[1].docs = <<>> => f_out[1].content = <<>>

\* C35: every chunk the chunker makes of a text is at most as long as the
\* chunk size.
C35_ChunksWithinSize ==
    f_pc = "output" =>
        \A i \in DOMAIN f_out[1] : Len(f_out[1][i]) <= ChunkSize

\* a text longer than the chunk size without a blank or a line break
C35_Witness ==
    /\ f_pc = "output"
    /\ Len(f_in[1].text) > ChunkSize
    /\ \A i \in DOMAIN f_in[1].text : f_in[1].text[i] = "a"
    /\ Len(f_out[1]) >= 2
    /\ \A i \in DOMAIN f_out[1] : Len(f_out[1][i]) <= ChunkSize

\* C36: a response holds at most one text-start, before every text-delta,
\* and at most one text-end, after every text-delta; where it holds a
\* finish frame, a text-start before it has its text-end before it too,
\* whatever finish reason the stream reported.
C36_TextSpanWellFormed ==
    /\ Cardinality(Positions(Response, "text-start")) <= 1
    /\ Cardinality(Positions(Response, "text-end")) <= 1
    /\ \A d \in Positions(Response, "text-delta") :
           /\ \E b \in Positions(Response, "text-start") : b < d
           /\ \A e \in Positions(Response, "text-end") : d < e
    /\ \A e \in Positions(Response, "text-end") :
           \E b \in Positions(Response, "text-start") : b < e
    /\ \A f \in Positions(Response, "finish") :
           Positions(Response, "text-start") # {}
           => \E e \in Positions(Response, "text-end") : e < f

\* text, then a tool call that is carried out: the span closes after the
\* output of the tool and before finish
C36_Witness ==
    /\ Consumed
    /\ Reported(inLog) # <<>>
    /\ LastReported = ToolCalls
    /\ \E d \in Positions(out, "text-delta"),
          o \in Positions(out, "tool-output-available"),
          e \in Positions(out, "text-end"),
          f \in Positions(out, "finish") : d < o /\ o < e /\ e < f

\* the frames that belong to the carrying out of a tool call
CallFrames ==
    Positions(Response, "tool-input-available")
    \cup Positions(Response, "tool-output-available")
    \cup Positions(Response, "tool-output-error")

\* C37: a tool is invoked only when the stream has been read to its end and
\* the last finish reason it reported is "tool_calls"; no call index is
\* invoked twice; with another finish reason, or none, no tool is invoked
\* and no tool-input-available or tool-output frame is sent.
C37_ToolsOnlyOnToolCalls ==
    /\ invoked # <<>> \/ CallFrames # {}
       => /\ pc \notin {"start", "create", "stream"}
          /\ Reported(inLog) # <<>>
          /\ LastReported = ToolCalls
    /\ \A i, j \in DOMAIN invoked : invoked[i] = invoked[j] => i = j

\* fragments of a call arrived, the stream ended with "stop", and the
\* response was read to its end
C37_Witness ==
    /\ Consumed
    /\ raised = "none"
    /\ DOMAIN tool_calls_state # {}
    /\ \E i \in DOMAIN tool_calls_state :
           tool_calls_state[i].id # None /\ tool_calls_state[i].name # None
    /\ Reported(inLog) # <<>>
    /\ LastReported = Stop
    /\ invoked = <<>>
    /\ CallFrames = {}

\* C38: the seed is the first URL a crawl discovers, and the URLs are
\* discovered in the order of their depths: none is discovered before a URL
\* of a smaller depth.
C38_BreadthFirst ==
    /\ discovered_urls # <<>> => discovered_urls[1] = base_url
    /\ \A i, j \in DOMAIN dequeued_at :
           i < j => dequeued_at[i] <= dequeued_at[j]

\* four URLs at the depths 0, 1, 1 and 2
C38_Witness ==
    /\ c_pc = "returned"
    /\ dequeued_at = <<0, 1, 1, 2>>

\* the last call was a save_chat that succeeded
Saved(op) ==
    op # Nothing /\ op[1].op = "save_chat" /\ op[1].raises = None

\* C39: after a save_chat that succeeded the chat holds the saved messages,
\* in their order and no other; the step leaves every other chat as it was;
\* and the same save once more leaves the transcript as it is.
C39_SaveReplaces ==
    [][Saved(last_op') =>
          /\ LET rows == message_table'[last_op'[1].chat_id]
             IN  [i \in DOMAIN rows |-> rows[i].data] = last_op'[1].saved
          /\ \A c \in ChatIds \ {last_op'[1].chat_id} :
                 message_table'[c] = message_table[c]
          /\ last_op' = last_op => message_table' = message_table]_vars

\* a chat holds the one message that was saved last, the other chat holds
\* messages of its own
C39_Witness ==
    /\ Saved(last_op)
    /\ last_op[1].saved = <<NewUserMessage>>
    /\ Len(message_table[last_op[1].chat_id]) = 1
    /\ \E c \in ChatIds \ {last_op[1].chat_id} :
           Len(message_table[c]) > 1

\* C40: when the save tasks of the requests for a chat have all run, the
\* chat holds the complete message list of one of them, and every list
\* was built from the messages the chat held when its request started.
C40_SavesDoNotInterleave ==
    /\ \A r \in Requests :
           tx[r].at \in {"task", "deleted", "saved"}
           => SubSeq(tx[r].final_messages, 1, Len(tx[r].previous_messages))
                  = tx[r].previous_messages
    /\ (\A r \in Requests : tx[r].at = "saved")
       => \E r \in Requests : Transcript(db_rows) = tx[r].final_messages

\* the loop of line 321 handles call index i: its id and name are known
Handled(i) ==
    /\ i \in DOMAIN tool_calls_state
    /\ tool_calls_state[i].id # None
    /\ tool_calls_state[i].name # None

\* C27: when the stream has ended with finish reason "tool_calls" and the
\* response is complete, every accumulated call state (here: every one whose
\* id and name are known, the others being passed over by line 326) has a
\* tool-input-start and exactly one of tool-input-error and
\* tool-input-available, and every frame of a lower call index comes before
\* the frames the loop yields for a higher one.
C27_EveryCallProcessed ==
    Consumed /\ finish_reason = Some(ToolCalls)
             /\ raised \notin {"create", "stream"} =>
        \A i \in DOMAIN tool_calls_state :
            Handled(i) =>
                /\ CallPositions(out, i, {"tool-input-start"}) # {}
                /\ Cardinality(CallPositions(out, i,
                       {"tool-input-error", "tool-input-available"})) = 1
                /\ \A j \in DOMAIN tool_calls_state :
                       j > i =>
                           \A k \in CallPositions(out, i, ToolTypes),
                              m \in CallPositions(out, j,
                                       {"tool-input-error",
                                        "tool-input-available",
                                        "tool-output-available",
                                        "tool-output-error"}) : k < m

\* the inputTextDelta values of the tool-input-delta frames of call index
\* i, in the order of the response
InputTextDeltas(i) ==
    LET frames == SelectSeq(Response,
                            LAMBDA f : /\ Type(f) = "tool-input-delta"
                                       /\ f.call = i)
    IN  [k \in 1..Len(frames) |-> frames[k].data.inputTextDelta]

\* C28: for every call the loop of line 321 has handled, the
\* inputTextDelta values of its tool-input-delta frames, joined in the order
\* of the response, are the argument text accumulated for the call, which
\* is the text line 341 parses.
C28_DeltasSpellArguments ==
    ~cancelled =>
        \A i \in DOMAIN tool_calls_state :
            Visited(i) /\ Handled(i) =>
                Join(InputTextDeltas(i)) = tool_calls_state[i].arguments

\* the URLs the crawl has requested, in order
Fetched == SelectSeq(c_log, LAMBDA e : e.op = "get")

\* C29: in one crawl the visited set only grows, the URL being requested is
\* in it before the request is made, no URL is requested twice, and a URL
\* taken from the queue that is already visited is dropped without a
\* request.
C29_FetchedOnce ==
    [][/\ visited \subseteq visited'
       /\ c_pc' = "get" => c_url' \in visited'
       /\ \A i, j \in DOMAIN Fetched' :
              Fetched'[i].url = Fetched'[j].url => i = j
       /\ (c_pc = "loop" /\ Looping /\ Head(to_visit)[1] \in visited) =>
              /\ c_pc' = "loop"
              /\ Fetched' = Fetched
              /\ to_visit' = Tail(to_visit)]_vars

\* a URL two pages have put in the queue, at depths 1 and 2, was requested
\* the first time it was taken from the queue and dropped the second
C29_Witness ==
    \E i, j \in DOMAIN c_log :
        /\ i < j
        /\ c_log[i].op = "get"
        /\ c_log[j].op = "skip"
        /\ c_log[j].url = c_log[i].url
        /\ c_log[j].depth = 2
        /\ c_log[j].depth <= max_depth
        /\ \E n \in DOMAIN discovered_urls :
               discovered_urls[n] = c_log[i].url /\ dequeued_at[n] = 1

\* the GET the step has just made returned a response without an error
\* status
GetSucceeded ==
    /\ Len(c_log') = Len(c_log) + 1
    /\ LET last == c_log'[Len(c_log')]
       IN  /\ last.op = "get"
           /\ last.response # Nothing
           /\ last.response[1].status_code < 400

\* the content type of the response the step has just got has the part
Has_content_type(part) ==
    LET content_type == c_log'[Len(c_log')].response[1].content_type
    IN  \E i \in DOMAIN content_type : content_type[i] = part

\* C30: only an HTML response adds to the queue; the URL of a PDF is in the
\* discovered list and adds nothing to the queue; the URL of a response of
\* any other type adds nothing to the queue and is not in the discovered
\* list.
C30_LinksOnlyFromHtml ==
    [][GetSucceeded /\ ~Has_content_type("text/html") =>
           /\ to_visit' = to_visit
           /\ Has_content_type("application/pdf") =>
                  c_url \in Range(discovered_urls')
           /\ ~Has_content_type("application/pdf") =>
                  c_url \notin Range(discovered_urls')]_vars

====
